---- MODULE Spec2Model ----
(***************************************************************************)
(* Model of the Bosworth worker (src/index.js): the request router, the    *)
(* OAuth callback, the session resolver with token refresh, and the proxy  *)
(* to the upstream REST API.                                               *)
(*                                                                         *)
(* Strings are sequences of symbols.  The cookie name "bosworth_session"   *)
(* is one symbol; a path is the sequence of its segments ("/api/me" is     *)
(* <<"api","me">>, "/" is <<>>).  A JavaScript value that is null or       *)
(* undefined is the string "undefined" for tokens and <<>> for a session   *)
(* identifier.  Time is Date.now() in milliseconds.                        *)
(***************************************************************************)
EXTENDS Integers, Sequences, FiniteSets, Bags, TLC

\* ------------------------------------------------------------------------
\* Bounds of the model
\* ------------------------------------------------------------------------
MaxInflight == 2
MaxSessions == 2
MaxTokens == 4
MaxSongs == 2
MaxMoves == 2
MaxLoads == 1
MaxSaves == 1
MaxRows == 4

\* ------------------------------------------------------------------------
\* Program constants
\* ------------------------------------------------------------------------
RefreshMargin == 60000
SessionTtl == 86400

Undefined == "undefined"
NoSession == << >>
CookieName == "bosworth_session"

\* Instants at which the clock is observed (milliseconds).
Instants == {0, 1000, 86400500}

\* Lifetimes (expires_in, seconds) the token endpoint may return.
Lifetimes == {60, 61}

\* Final responses of the upstream API: status and raw body.  A response
\* with a null-body status (204, the answer of the player endpoints) has an
\* empty body.
UpstreamStatuses == {200, 204, 429}
RateLimited == "{\"error\":\"rate limited\"}"
UpstreamBodies == {"", RateLimited}
NullBodyStatuses == {101, 204, 205, 304}

Slots == 1 .. MaxInflight

\* an identifier generator that gives out the same identifier each time
uuidRepeating(i) == << "u1" >>

uuid(i) == << "u" \o ToString(i) >>
token(i) == "tok" \o ToString(i)

\* ------------------------------------------------------------------------
\* getSessionFromCookie: /bosworth_session=([^;]+)/ on the Cookie header
\* ------------------------------------------------------------------------
Min(S) == CHOOSE x \in S : \A y \in S : x <= y

MatchAt(h, i) ==
  /\ i + 2 <= Len(h)
  /\ h[i] = CookieName
  /\ h[i + 1] = "="
  /\ h[i + 2] # ";"

\* last index of the run of non-';' symbols that starts at i
RunEnd(h, i) ==
  LET stops == {k \in i .. Len(h) : h[k] = ";"}
  IN  IF stops = {} THEN Len(h) ELSE Min(stops) - 1

CookieMatch(h) ==
  LET M == {i \in 1 .. Len(h) : MatchAt(h, i)}
  IN  IF M = {} THEN NoSession
      ELSE SubSeq(h, Min(M) + 2, RunEnd(h, Min(M) + 2))

getSessionFromCookie(headers) ==
  IF "Cookie" \notin DOMAIN headers THEN NoSession
  ELSE IF Len(headers["Cookie"]) = 0 THEN NoSession
  ELSE CookieMatch(headers["Cookie"])

\* ------------------------------------------------------------------------
\* JSON.stringify / JSON.parse of a credential record: a key whose value is
\* undefined is left out of the text, and reads back as undefined.
\* ------------------------------------------------------------------------
RecordKeys == {"access_token", "refresh_token", "expires_at"}

JSONstringify(rec) ==
  [k \in {j \in RecordKeys : ~(j # "expires_at" /\ rec[j] = Undefined)} |-> rec[k]]

JSONparse(text) ==
  [k \in RecordKeys |-> IF k \in DOMAIN text THEN text[k] ELSE Undefined]

\* ------------------------------------------------------------------------
\* Values
\* ------------------------------------------------------------------------
NoRecord == [access_token |-> Undefined, refresh_token |-> Undefined, expires_at |-> 0]
NoData == [access_token |-> Undefined, refresh_token |-> Undefined, expires_in |-> 0]
NoHeaders == [h \in {} |-> << >>]
NoRequest == [method |-> "GET", path |-> << >>, search |-> << >>,
              headers |-> NoHeaders, body |-> ""]
NoResponse == [status |-> 0, ctype |-> "", body |-> "", location |-> "",
               setCookie |-> << >>]

ErrNotAuthenticated == "{\"error\":\"Not authenticated\"}"
ErrSessionExpired == "{\"error\":\"Session expired\"}"
ErrRefreshFailed == "{\"error\":\"Failed to refresh token\"}"
ErrorBodies == {ErrNotAuthenticated, ErrSessionExpired, ErrRefreshFailed}

JsonType == "application/json"
HtmlType == "text/html; charset=utf-8"

\* new Response(JSON.stringify(data), {status, headers: JSON})
jsonResponse(text, status) ==
  [status |-> status, ctype |-> JsonType, body |-> text, location |-> "",
   setCookie |-> << >>]

\* new Response(html, {headers: HTML}); the status defaults to 200
servePage(html) ==
  [status |-> 200, ctype |-> HtmlType, body |-> html, location |-> "",
   setCookie |-> << >>]

\* The promise of the handler rejected after the router returned it: no
\* response object was built by the program.
Rejected == [status |-> 0, ctype |-> "", body |-> "rejected", location |-> "",
             setCookie |-> << >>]

\* ------------------------------------------------------------------------
\* State
\* ------------------------------------------------------------------------
VARIABLES now, store, reqs, sessions, minted, issued, page, db

vars == <<now, store, reqs, sessions, minted, issued, page, db>>

\* sessions: the number of identifiers crypto.randomUUID() has given out
\* (lines 122 and 347).  db: the rows of the sessions table of env.DB, in
\* the order of their insertion.
\* issued: the latest successful code exchange (its session identifier, the
\* access token and lifetime of the token response, and Date.now() of line 126)
NoExchange == [sessionId |-> NoSession, access_token |-> Undefined,
               expires_in |-> 0, at |-> 0]

\* the local variables of an auxiliary handler: sessionData (line 325),
\* user.id (lines 331, 373), sessionId (line 347), topArtists.items and
\* topTracks.items (line 262)
NoLocals == [sessionData |-> << >>, user |-> Undefined, sessionId |-> NoSession,
             topArtists |-> << >>, topTracks |-> << >>]

Idle ==
  [pc |-> "idle", req |-> NoRequest, sessionId |-> NoSession,
   tokenData |-> NoRecord, tokens |-> NoRecord, decidedAt |-> 0,
   refreshed |-> FALSE, data |-> NoData, accessToken |-> Undefined,
   locals |-> NoLocals,
   storeGets |-> 0,
   storePuts |-> << >>, tokenCalls |-> << >>, upstream |-> << >>,
   upstreamResp |-> [status |-> 0, body |-> ""], thrown |-> "",
   tokenResp |-> [status |-> 0, body |-> ""],
   resp |-> NoResponse]

\* page: the state of the party page's script in one browser tab and of the
\* user's library at the service.  Of the script: its variables of lines
\* 1721-1729 (playlists as the set of the names loaded); stage, how far
\* init() of lines 1734-1744 has come ("auth" while it awaits /api/me,
\* "init" while it awaits its two loads, "ready" once setupEventListeners
\* has run, "left" once it has sent the browser to /, "stalled" when its
\* fetch threw); summary, whether the summary modal is displayed; saving,
\* the number of calls of endSession that await their fetch; moves, the bag
\* of the calls of moveSongsToPlaylist that await an answer; loading, the
\* bag of the calls of loadSongs that do; playlistsLoading, whether
\* loadPlaylists does; loads, the number of refreshes and reloads asked for
\* so far, at most MaxLoads.  Of the service: the Liked Songs, and the
\* tracks it has put in a playlist.  NoPage is a tab that has not been
\* opened.
NoPage ==
  [songs |-> << >>, selectedSongs |-> << >>, currentSongIndex |-> -1,
   songsSorted |-> 0, playlistsUsed |-> << >>, genresSorted |-> << >>,
   playlists |-> {}, stage |-> "closed", summary |-> FALSE, saving |-> 0,
   liked |-> {}, inPlaylist |-> {},
   moves |-> EmptyBag, loading |-> EmptyBag, playlistsLoading |-> FALSE,
   loads |-> 0]

Init ==
  /\ page = NoPage
  /\ now = 0
  /\ store = << >>
  /\ reqs = [s \in Slots |-> Idle]
  /\ sessions = 0
  /\ db = << >>
  /\ minted = 0
  /\ issued = NoExchange

\* ------------------------------------------------------------------------
\* Inbound requests
\* ------------------------------------------------------------------------
cookieOf(sessionId) == <<CookieName, "=">> \o sessionId
Attrs == <<";", " ", "theme", "=", "dark">>

\* Cookie headers a browser may send: the session cookie of the first
\* session (followed by another cookie), a cookie of another name alone, and
\* a cookie whose name merely ends in the session cookie's name.
SessionCookies == {cookieOf(uuid(1)) \o Attrs}
OtherCookie == <<"theme", "=", "dark">>
SuffixCookie == <<"x", CookieName, "=">> \o uuid(1)

withCookie(c) == "Cookie" :> c

Inbound(method, path, search, body, headers) ==
  {[method |-> method, path |-> path, search |-> search, headers |-> h,
    body |-> body] : h \in headers}

ApiRequests ==
  Inbound("GET", <<"api", "me", "tracks">>, <<<<"limit", "50">>>>, "",
          {NoHeaders, withCookie(OtherCookie), withCookie(SuffixCookie)}
            \cup {withCookie(c) : c \in SessionCookies})
    \cup Inbound("DELETE", <<"api", "me", "tracks">>, << >>, "[\"id1\"]",
                 {withCookie(cookieOf(uuid(1)))})
    \cup Inbound("PATCH", <<"api", "playlists", "p1">>, << >>, "{\"name\":\"x\"}",
                 {withCookie(cookieOf(uuid(1)))})
    \cup Inbound("GET", <<"api", "token">>, << >>, "",
                 {withCookie(cookieOf(uuid(1)))})

\* ------------------------------------------------------------------------
\* Session resolver and token refresher (handleAPI, refreshAccessToken)
\* ------------------------------------------------------------------------
Finish(r, response) == [r EXCEPT !.pc = "done", !.resp = response]

\* line 169 with > in place of >=
needsRefreshStrict(t, tokens) == t > tokens.expires_at - RefreshMargin

\* line 169
needsRefresh(t, tokens) == t >= tokens.expires_at - RefreshMargin

Falsy(v) == v \in {Undefined, ""}

\* refreshAccessToken without the "|| refreshToken" of line 215
refreshedRecordDropping(data, refreshToken, t) ==
  [access_token |-> data.access_token,
   refresh_token |-> data.refresh_token,
   expires_at |-> t + data.expires_in * 1000]

\* refreshAccessToken without the "* 1000" of line 216
refreshedRecordSeconds(data, refreshToken, t) ==
  [access_token |-> data.access_token,
   refresh_token |-> IF Falsy(data.refresh_token) THEN refreshToken
                     ELSE data.refresh_token,
   expires_at |-> t + data.expires_in]

refreshedRecord(data, refreshToken, t) ==
  [access_token |-> data.access_token,
   refresh_token |-> IF Falsy(data.refresh_token) THEN refreshToken
                     ELSE data.refresh_token,
   expires_at |-> t + data.expires_in * 1000]

\* ------------------------------------------------------------------------
\* API proxy (proxyToSpotify) and the auxiliary endpoints
\* ------------------------------------------------------------------------
Bearer(accessToken) == <<"Bearer", accessToken>>
BodyMethods == {"POST", "PUT", "DELETE"}

\* proxyToSpotify starting from the inbound headers
proxyHeadersForwarding(request, accessToken) ==
  request.headers @@ ("Authorization" :> Bearer(accessToken))
    @@ ("Content-Type" :> <<JsonType>>)

proxyHeaders(request, accessToken) ==
  ("Authorization" :> Bearer(accessToken)) @@ ("Content-Type" :> <<JsonType>>)

\* path.replace('/api', '') on a path that starts with '/api/'
spotifyPath(path) == Tail(path)

\* proxyToSpotify without the url.search of line 226
proxyCallDroppingSearch(request, accessToken, path) ==
  [path |-> path, search |-> << >>, method |-> request.method,
   headers |-> proxyHeaders(request, accessToken),
   body |-> IF request.method \in BodyMethods THEN request.body ELSE ""]

\* lines 225-246: the request handed to fetch
proxyCall(request, accessToken, path) ==
  [path |-> path, search |-> request.search, method |-> request.method,
   headers |-> proxyHeaders(request, accessToken),
   body |-> IF request.method \in BodyMethods THEN request.body ELSE ""]

auxCall(path, search, accessToken) ==
  [path |-> path, search |-> search, method |-> "GET",
   headers |-> ("Authorization" :> Bearer(accessToken)), body |-> ""]

TopSearch == <<<<"time_range", "short_term">>, <<"limit", "10">>>>

\* handleAPI passing on the access token it read from the store
dispatchStale(r, tokens) ==
  [r EXCEPT !.pc = "upstream", !.accessToken = r.tokenData.access_token,
            !.upstream = <<proxyCall(r.req, r.tokenData.access_token,
                                     spotifyPath(r.req.path))>>]

\* JSON.stringify({access_token})
tokenBody(accessToken) == "{\"access_token\":\"" \o accessToken \o "\"}"

\* lines 178-193 of handleAPI and the handler it calls, up to that
\* handler's first await: handleAIInsights and handleGetSessionHistory issue
\* their calls at once (lines 262-269, 371); handleSaveSession awaits
\* request.json() (line 325) and proxyToSpotify, for POST, PUT and DELETE,
\* request.text() (line 240) before any call is issued
dispatch(r, tokens) ==
  LET q == [r EXCEPT !.accessToken = tokens.access_token] IN
  IF r.req.path = <<"api", "ai-insights">>
  THEN [q EXCEPT !.pc = "aux",
                 !.upstream = <<auxCall(<<"me", "top", "artists">>, TopSearch,
                                        tokens.access_token),
                                auxCall(<<"me", "top", "tracks">>, TopSearch,
                                        tokens.access_token)>>]
  ELSE IF r.req.path = <<"api", "session", "save">>
  THEN [q EXCEPT !.pc = "body"]
  ELSE IF r.req.path = <<"api", "session", "history">>
  THEN [q EXCEPT !.pc = "aux",
                 !.upstream = <<auxCall(<<"me">>, << >>, tokens.access_token)>>]
  ELSE IF r.req.method \in BodyMethods
  THEN [q EXCEPT !.pc = "body"]
  ELSE [q EXCEPT !.pc = "upstream",
                 !.upstream = <<proxyCall(r.req, tokens.access_token,
                                          spotifyPath(r.req.path))>>]

\* new Response(responseText, {status: response.status, headers: JSON}),
\* lines 249-252.  responseText is a string, the empty one included, and so
\* a body: the constructor throws a TypeError when the status is a
\* null-body status, and a RangeError when it is outside 200..599.  Nothing
\* catches either.
proxyResponse(status, text) ==
  IF status \in NullBodyStatuses \/ status < 200 \/ status > 599 THEN Rejected
  ELSE jsonResponse(text, status)

\* handleAPI without the test of line 162: JSON.parse(null) is null, and
\* line 169 throws on it
onMissingRecordThrows(r) == Finish(r, Rejected)

\* handleAPI, lines 162-164
onMissingRecord(r) == Finish(r, jsonResponse(ErrSessionExpired, 401))

\* handleAPI taking its three internal endpoints before it looks for a
\* session
handleAPIUngated(r, request) ==
  LET sessionId == getSessionFromCookie(request.headers)
  IN  IF request.path \in {<<"api", "ai-insights">>, <<"api", "session", "save">>,
                           <<"api", "session", "history">>}
      THEN dispatch([r EXCEPT !.req = request], r.tokens)
      ELSE IF sessionId = NoSession
      THEN Finish([r EXCEPT !.req = request],
                  jsonResponse(ErrNotAuthenticated, 401))
      ELSE [r EXCEPT !.pc = "get", !.req = request, !.sessionId = sessionId,
                     !.storeGets = 1]

\* handleAPI, lines 155-158
handleAPI(r, request) ==
  LET sessionId == getSessionFromCookie(request.headers)
  IN  IF sessionId = NoSession
      THEN Finish([r EXCEPT !.req = request],
                  jsonResponse(ErrNotAuthenticated, 401))
      ELSE [r EXCEPT !.pc = "get", !.req = request, !.sessionId = sessionId,
                     !.storeGets = 1]

\* ------------------------------------------------------------------------
\* The token endpoint: what a POST to it may come back with
\* ------------------------------------------------------------------------
\* "network": fetch throws; "status": a non-success status; "body": a 2xx
\* whose body is no JSON; "ok": a 2xx with {access_token, refresh_token?,
\* expires_in}, the tokens newly minted.
TokenFailures == {"network", "status", "body"}

TokenData ==
  {[access_token |-> token(minted + 1), refresh_token |-> rt, expires_in |-> e] :
     rt \in {Undefined, token(minted + 2)}, e \in Lifetimes}

Mints(data) == IF data.refresh_token = Undefined THEN 1 ELSE 2

\* ------------------------------------------------------------------------
\* The token store (KV): put with expirationTtl, and get.  A key is gone
\* from its expiration on; when the store drops it cannot be observed.
\* ------------------------------------------------------------------------
\* a put that leaves the namespace with that key alone
kvPutClearing(kv, key, value, ttl, t) ==
  [k \in {key} |-> [value |-> value, expiration |-> t + ttl * 1000]]

kvPut(kv, key, value, ttl, t) ==
  [k \in DOMAIN kv \cup {key} |->
     IF k = key THEN [value |-> value, expiration |-> t + ttl * 1000] ELSE kv[k]]

\* a store that goes on returning a key after its expiration
kvHasLazily(kv, key, t) == key \in DOMAIN kv

\* get returns null for a key that was never put or whose expiration has
\* been reached
kvHas(kv, key, t) == key \in DOMAIN kv /\ t < kv[key].expiration

\* error.message of the exception of a store call that rejects
StoreError == "KV error"

\* ------------------------------------------------------------------------
\* handleAPI as a process: one action per resumption after an await
\* ------------------------------------------------------------------------
\* line 161 resumes with the value read; lines 162-176 up to the next await
StoreGetDone(s) ==
  LET r == reqs[s] IN
  /\ r.pc = "get"
  /\ IF ~kvHas(store, r.sessionId, now)
     THEN reqs' = [reqs EXCEPT ![s] = onMissingRecord(r)]
     ELSE LET tokens == JSONparse(store[r.sessionId].value)
              read == [r EXCEPT !.tokenData = tokens, !.tokens = tokens,
                                !.decidedAt = now]
          IN  IF needsRefresh(now, tokens)
              THEN reqs' = [reqs EXCEPT ![s] =
                     [read EXCEPT !.pc = "refresh",
                                  !.tokenCalls = <<[grant |-> "refresh_token",
                                                    credential |-> tokens.refresh_token]>>]]
              ELSE reqs' = [reqs EXCEPT ![s] = dispatch(read, tokens)]
  /\ UNCHANGED <<page, now, store, sessions, minted, issued, db>>

\* line 161: the read of the store rejects; nothing catches it
StoreGetFailed(s) ==
  LET r == reqs[s] IN
  /\ r.pc = "get"
  /\ reqs' = [reqs EXCEPT ![s] = Finish([r EXCEPT !.thrown = StoreError], Rejected)]
  /\ UNCHANGED <<page, now, store, sessions, minted, issued, db>>

\* handleAPI going on with the record it read when the refresh fails
RefreshFailedContinues(s) ==
  LET r == reqs[s] IN
  /\ r.pc = "refresh"
  /\ reqs' = [reqs EXCEPT ![s] = dispatch(r, r.tokenData)]
  /\ UNCHANGED <<page, now, store, sessions, minted, issued, db>>

\* handleAPI discarding the record when the refresh fails
RefreshFailedDeleting(s) ==
  LET r == reqs[s] IN
  /\ r.pc = "refresh"
  /\ store' = [k \in DOMAIN store \ {r.sessionId} |-> store[k]]
  /\ reqs' = [reqs EXCEPT ![s] =
                 Finish([r EXCEPT !.refreshed = FALSE],
                        jsonResponse(ErrRefreshFailed, 401))]
  /\ UNCHANGED <<page, now, sessions, minted, issued, db>>

\* refreshAccessToken returns null: lines 210, 218-221, then line 174
RefreshFailed(s) ==
  LET r == reqs[s] IN
  /\ r.pc = "refresh"
  /\ \E failure \in TokenFailures :
       reqs' = [reqs EXCEPT ![s] =
                  Finish([r EXCEPT !.refreshed = FALSE],
                         jsonResponse(ErrRefreshFailed, 401))]
  /\ UNCHANGED <<page, now, store, sessions, minted, issued, db>>

\* handleAPI going on to line 178 without the put of line 172
RefreshDoneSkippingPut(s) ==
  LET r == reqs[s] IN
  /\ r.pc = "refresh"
  /\ \E data \in TokenData :
       /\ minted + Mints(data) <= MaxTokens
       /\ minted' = minted + Mints(data)
       /\ reqs' = [reqs EXCEPT ![s] =
            dispatch([r EXCEPT !.refreshed = TRUE, !.data = data,
                               !.tokens = refreshedRecord(data, r.tokenData.refresh_token, now)],
                     refreshedRecord(data, r.tokenData.refresh_token, now))]
  /\ UNCHANGED <<page, now, store, sessions, issued, db>>

\* refreshAccessToken returns a record: lines 212-217, then line 172 is issued
RefreshDone(s) ==
  LET r == reqs[s] IN
  /\ r.pc = "refresh"
  /\ \E data \in TokenData :
       /\ minted + Mints(data) <= MaxTokens
       /\ minted' = minted + Mints(data)
       /\ reqs' = [reqs EXCEPT ![s] =
            [r EXCEPT !.pc = "put", !.refreshed = TRUE, !.data = data,
                      !.tokens = refreshedRecord(data, r.tokenData.refresh_token, now)]]
  /\ UNCHANGED <<page, now, store, sessions, issued, db>>

\* line 172 writing back the record that was read
StorePutDoneStale(s) ==
  LET r == reqs[s]
      text == JSONstringify(r.tokenData)
  IN
  /\ r.pc = "put"
  /\ store' = kvPut(store, r.sessionId, text, SessionTtl, now)
  /\ reqs' = [reqs EXCEPT ![s] =
       dispatch([r EXCEPT !.storePuts = <<[key |-> r.sessionId, value |-> text,
                                           ttl |-> SessionTtl]>>],
                r.tokens)]
  /\ UNCHANGED <<page, now, sessions, minted, issued, db>>

\* line 172 completes; lines 178-193 up to the next await
StorePutDone(s) ==
  LET r == reqs[s]
      text == JSONstringify(r.tokens)
  IN
  /\ r.pc = "put"
  /\ store' = kvPut(store, r.sessionId, text, SessionTtl, now)
  /\ reqs' = [reqs EXCEPT ![s] =
       dispatch([r EXCEPT !.storePuts = <<[key |-> r.sessionId, value |-> text,
                                           ttl |-> SessionTtl]>>],
                r.tokens)]
  /\ UNCHANGED <<page, now, sessions, minted, issued, db>>

\* line 172: the write to the store rejects; the record stays as it was,
\* and nothing catches the exception
StorePutFailed(s) ==
  LET r == reqs[s] IN
  /\ r.pc = "put"
  /\ reqs' = [reqs EXCEPT ![s] = Finish([r EXCEPT !.thrown = StoreError], Rejected)]
  /\ UNCHANGED <<page, now, store, sessions, minted, issued, db>>

\* proxyToSpotify issuing its request once more after an error status
UpstreamDoneRetrying(s) ==
  LET r == reqs[s] IN
  /\ r.pc = "upstream"
  /\ \E status \in UpstreamStatuses, text \in UpstreamBodies :
       /\ status \in NullBodyStatuses => text = ""
       /\ reqs' = [reqs EXCEPT ![s] =
            IF status >= 400 /\ Len(r.upstream) = 1
            THEN [r EXCEPT !.upstream = r.upstream \o r.upstream]
            ELSE Finish([r EXCEPT !.upstreamResp = [status |-> status, body |-> text]],
                        proxyResponse(status, text))]
  /\ UNCHANGED <<page, now, store, sessions, minted, issued, db>>

\* proxyToSpotify, lines 246-252: the upstream answered
UpstreamDone(s) ==
  LET r == reqs[s] IN
  /\ r.pc = "upstream"
  /\ \E status \in UpstreamStatuses, text \in UpstreamBodies :
       /\ status \in NullBodyStatuses => text = ""
       /\ reqs' = [reqs EXCEPT ![s] =
            Finish([r EXCEPT !.upstreamResp = [status |-> status, body |-> text]],
                   proxyResponse(status, text))]
  /\ UNCHANGED <<page, now, store, sessions, minted, issued, db>>

\* proxyToSpotify, line 246: fetch throws; nothing catches it
UpstreamFailed(s) ==
  LET r == reqs[s] IN
  /\ r.pc = "upstream"
  /\ reqs' = [reqs EXCEPT ![s] = Finish(r, Rejected)]
  /\ UNCHANGED <<page, now, store, sessions, minted, issued, db>>

\* ------------------------------------------------------------------------
\* The auxiliary handlers (handleAIInsights, handleSaveSession,
\* handleGetSessionHistory)
\* ------------------------------------------------------------------------
\* JSON.stringify of a string, of an array of texts
quote(text) == "\"" \o text \o "\""

RECURSIVE joinText(_, _)
joinText(texts, sep) ==
  IF texts = << >> THEN ""
  ELSE IF Len(texts) = 1 THEN texts[1]
  ELSE texts[1] \o sep \o joinText(Tail(texts), sep)

jsonArray(texts) == "[" \o joinText(texts, ",") \o "]"

\* What the upstream API answers to the calls of lines 263-268: an object
\* with the items of the user's top artists or top tracks, or an error
\* object, which has no items (the answer to a call that is refused).
ArtistItems == <<[name |-> "A", genres |-> <<"pop">>]>>
TrackItems == <<[name |-> "T", artists |-> <<[name |-> "A"]>>]>>
ErrorAnswer == [error |-> "rate limited"]
TopArtistsAnswers == {[items |-> ArtistItems], ErrorAnswer}
TopTracksAnswers == {[items |-> TrackItems], ErrorAnswer}

\* answer.items || []
itemsOf(answer) == IF "items" \in DOMAIN answer THEN answer.items ELSE << >>

artistText(artist) ==
  "{\"name\":" \o quote(artist.name) \o ",\"genres\":"
    \o jsonArray([i \in 1 .. Len(artist.genres) |-> quote(artist.genres[i])]) \o "}"

trackText(track) ==
  "{\"name\":" \o quote(track.name) \o ",\"artists\":"
    \o jsonArray([i \in 1 .. Len(track.artists) |->
                    "{\"name\":" \o quote(track.artists[i].name) \o "}"]) \o "}"

\* genreCounts[genre] = (genreCounts[genre] || 0) + 1, line 279: the
\* entries of the object stay in the order in which their keys were added
countGenre(counts, genre) ==
  IF \E i \in 1 .. Len(counts) : counts[i][1] = genre
  THEN [i \in 1 .. Len(counts) |->
          IF counts[i][1] = genre THEN <<genre, counts[i][2] + 1>> ELSE counts[i]]
  ELSE Append(counts, <<genre, 1>>)

RECURSIVE countGenres(_, _)
countGenres(counts, genres) ==
  IF genres = << >> THEN counts
  ELSE countGenres(countGenre(counts, Head(genres)), Tail(genres))

\* lines 276-281
RECURSIVE genreCounts(_, _)
genreCounts(counts, artists) ==
  IF artists = << >> THEN counts
  ELSE genreCounts(countGenres(counts, Head(artists).genres), Tail(artists))

\* .sort((a, b) => b[1] - a[1]): by count, the greatest first; the sort is
\* stable
insertByCount(sorted, entry) ==
  LET before == {i \in 1 .. Len(sorted) : sorted[i][2] >= entry[2]}
      k == Cardinality(before)
  IN  SubSeq(sorted, 1, k) \o <<entry>> \o SubSeq(sorted, k + 1, Len(sorted))

RECURSIVE sortByCount(_)
sortByCount(entries) ==
  IF entries = << >> THEN << >>
  ELSE insertByCount(sortByCount(SubSeq(entries, 1, Len(entries) - 1)),
                     entries[Len(entries)])

\* Object.entries(genreCounts).sort(...).slice(0, 5), line 307
topGenres(artists) ==
  LET sorted == sortByCount(genreCounts(<< >>, artists))
  IN  SubSeq(sorted, 1, IF Len(sorted) < 5 THEN Len(sorted) ELSE 5)

genreText(entry) == "[" \o quote(entry[1]) \o "," \o ToString(entry[2]) \o "]"

\* aiResponse.response of line 297
AiResponse == "nice taste"

\* JSON.stringify({insights, data: {topArtists, topTracks, topGenres}}),
\* lines 302-309
insightsBody(insights, topArtists, topTracks) ==
  LET genres == topGenres(topArtists) IN
  "{\"insights\":" \o quote(insights) \o ",\"data\":{\"topArtists\":"
    \o jsonArray([i \in 1 .. Len(topArtists) |-> artistText(topArtists[i])])
    \o ",\"topTracks\":"
    \o jsonArray([i \in 1 .. Len(topTracks) |-> trackText(topTracks[i])])
    \o ",\"topGenres\":"
    \o jsonArray([i \in 1 .. Len(genres) |-> genreText(genres[i])]) \o "}}"

\* JSON.stringify({success: true, sessionId}), line 360
saveBody(sessionId) ==
  "{\"success\":true,\"sessionId\":" \o quote(sessionId[1]) \o "}"

\* What the upstream API answers to GET /me (lines 328, 370): the user, or
\* an error object, of which user.id is undefined
UserId == "user1"
UserAnswers == {[id |-> UserId], ErrorAnswer}
idOf(answer) == IF "id" \in DOMAIN answer THEN answer.id ELSE Undefined

\* JSON.stringify of an object whose values are numbers, given as the
\* sequence of its entries; mark is the quotation mark, which is escaped
\* when the text is itself written as a JSON string
objectText(entries, mark) ==
  "{" \o joinText([i \in 1 .. Len(entries) |->
                     mark \o entries[i][1] \o mark \o ":" \o ToString(entries[i][2])],
                  ",") \o "}"

\* The object that endSession sends (lines 2090-2095), and the empty
\* object: the members in the order of the text, the objects of playlists
\* and genres as the sequences of their entries
SessionData ==
  <<<<"duration", 5>>, <<"songsSorted", 1>>, <<"playlists", <<<<"p1", 1>>>>>>,
    <<"genres", << >>>>>>
SessionDatas == {SessionData, << >>}

\* JSON.stringify of such an object, line 2090
memberText(member) ==
  quote(member[1]) \o ":"
    \o IF member[1] \in {"playlists", "genres"}
       THEN objectText(member[2], "\"")
       ELSE ToString(member[2])

dataText(data) ==
  "{" \o joinText([i \in 1 .. Len(data) |-> memberText(data[i])], ",") \o "}"

\* the bodies of the requests to /api/session/save: the texts of the
\* objects above and the empty body, which is no JSON
SaveBodies == {dataText(data) : data \in SessionDatas} \cup {""}

\* Requests for the three paths that handleAPI answers itself
AuxRequests ==
  Inbound("GET", <<"api", "ai-insights">>, << >>, "",
          {NoHeaders, withCookie(cookieOf(uuid(1)))})
    \cup UNION {Inbound("POST", <<"api", "session", "save">>, << >>, body,
                        {withCookie(cookieOf(uuid(1)))}) : body \in SaveBodies}
    \cup Inbound("GET", <<"api", "session", "history">>, << >>, "",
                 {withCookie(cookieOf(uuid(1)))})

\* request.json() of line 325: the object whose text the body is; a body
\* that is the text of no object makes it throw
isJson(body) == \E data \in SessionDatas : dataText(data) = body
sessionData(body) == CHOOSE data \in SessionDatas : dataText(data) = body
ParseMessage == "Unexpected end of JSON input"

\* sessionData.duration and the like, lines 354-357: the value of the
\* member in a one-element sequence, or the empty sequence when the object
\* has no such member and the value is undefined
bound(object, key) ==
  LET at == {i \in 1 .. Len(object) : object[i][1] = key}
  IN  IF at = {} THEN << >> ELSE <<object[CHOOSE i \in at : TRUE][2]>>

\* bind(...) of lines 351-358 and of line 378 throws when one of its
\* values is undefined: user.id of an answer without id, a member the
\* object of the body lacks, or the JSON.stringify of such a member, which
\* is undefined too
TypeErrorMessage ==
  "D1_TYPE_ERROR: Type 'undefined' not supported for value 'undefined'"

bindThrows(userId, data) ==
  \/ userId = Undefined
  \/ \E key \in {"duration", "songsSorted", "playlists", "genres"} :
       bound(data, key) = << >>

\* the row of the INSERT of lines 348-358: playlists_used and genres hold
\* the JSON.stringify of the objects; created_at is CURRENT_TIMESTAMP, the
\* clock in seconds
newRow(sessionId, userId, data, t) ==
  [id |-> sessionId, user_id |-> userId,
   duration_seconds |-> bound(data, "duration")[1],
   songs_sorted |-> bound(data, "songsSorted")[1],
   playlists_used |-> bound(data, "playlists")[1],
   genres |-> bound(data, "genres")[1],
   created_at |-> t \div 1000]

\* CURRENT_TIMESTAMP as text, YYYY-MM-DD HH:MM:SS; the clock reads 0 at
\* 2026-01-01 00:00:00
pad2(n) == IF n < 10 THEN "0" \o ToString(n) ELSE ToString(n)

timestamp(seconds) ==
  LET inDay == seconds % 86400 IN
  "2026-01-" \o pad2(seconds \div 86400 + 1) \o " " \o pad2(inDay \div 3600)
    \o ":" \o pad2((inDay % 3600) \div 60) \o ":" \o pad2(inDay % 60)

\* a row of the answer of the SELECT * of line 377, as JSON: the seven
\* columns of the table of lines 335-343
\* playlists_used and genres hold the JSON text of an object, which is
\* written as a JSON string, its quotation marks escaped
rowText(row) ==
  "{\"id\":" \o quote(row.id[1]) \o ",\"user_id\":" \o quote(row.user_id)
    \o ",\"duration_seconds\":" \o ToString(row.duration_seconds)
    \o ",\"songs_sorted\":" \o ToString(row.songs_sorted)
    \o ",\"playlists_used\":" \o quote(objectText(row.playlists_used, "\\\""))
    \o ",\"genres\":" \o quote(objectText(row.genres, "\\\""))
    \o ",\"created_at\":" \o quote(timestamp(row.created_at)) \o "}"

rowsText(rows) == joinText([i \in 1 .. Len(rows) |-> rowText(rows[i])], ",")

\* ORDER BY created_at DESC: the latest first, rows of the same second in
\* the order of their insertion
insertByTime(sorted, row) ==
  LET before == {i \in 1 .. Len(sorted) : sorted[i].created_at >= row.created_at}
      k == Cardinality(before)
  IN  SubSeq(sorted, 1, k) \o <<row>> \o SubSeq(sorted, k + 1, Len(sorted))

RECURSIVE latestFirst(_)
latestFirst(rows) ==
  IF rows = << >> THEN << >>
  ELSE insertByTime(latestFirst(SubSeq(rows, 1, Len(rows) - 1)), rows[Len(rows)])

\* SELECT * FROM sessions WHERE user_id = ? ORDER BY created_at DESC
\* LIMIT 20, lines 376-378
rowsOf(rows, userId) ==
  LET found == latestFirst(SelectSeq(rows, LAMBDA row : row.user_id = userId))
  IN  SubSeq(found, 1, IF Len(found) < 20 THEN Len(found) ELSE 20)

\* JSON.stringify({sessions: result.results || []}), line 380
historyBody(rows) == "{\"sessions\":[" \o rowsText(rows) \o "]}"

\* error.message of the exception a handler caught: a call that failed, a
\* body that is not JSON
ErrorMessages == {"Network connection lost", "Unexpected end of JSON input"}

\* JSON.stringify({error: error.message})
errorBody(message) == "{\"error\":" \o quote(message) \o "}"

\* JSON.stringify({insights: 'Unable to generate insights ...', error: error.message})
insightsFallback(message) ==
  "{\"insights\":\"Unable to generate insights at this time. Keep vibing! üéµ\",\"error\":"
    \o quote(message) \o "}"

HistoryFallback == "{\"sessions\":[]}"

\* the catch blocks of the three auxiliary handlers
caughtResponse(path, message) ==
  IF path = <<"api", "session", "save">> THEN jsonResponse(errorBody(message), 500)
  ELSE IF path = <<"api", "ai-insights">>
  THEN jsonResponse(insightsFallback(message), 200)
  ELSE jsonResponse(HistoryFallback, 200)

\* the body of the inbound request has been read: line 325 resumes with
\* the object of the body and line 328 issues the call for the user, or
\* throws, when the body is no JSON, to the catch of lines 361-364; or
\* line 240 resumes and line 246 issues the proxied call
BodyRead(s) ==
  LET r == reqs[s] IN
  /\ r.pc = "body"
  /\ reqs' = [reqs EXCEPT ![s] =
       IF r.req.path = <<"api", "session", "save">>
       THEN IF isJson(r.req.body)
            THEN [r EXCEPT !.pc = "aux",
                           !.locals.sessionData = sessionData(r.req.body),
                           !.upstream = <<auxCall(<<"me">>, << >>, r.accessToken)>>]
            ELSE Finish([r EXCEPT !.thrown = ParseMessage],
                        caughtResponse(r.req.path, ParseMessage))
       ELSE [r EXCEPT !.pc = "upstream",
                      !.upstream = <<proxyCall(r.req, r.accessToken,
                                               spotifyPath(r.req.path))>>]]
  /\ UNCHANGED <<page, now, store, sessions, minted, issued, db>>

\* proxyToSpotify, line 240: the reading of the body of the request
\* rejects; nothing catches it, and no call is issued
BodyFailed(s) ==
  LET r == reqs[s] IN
  /\ r.pc = "body"
  /\ r.req.path # <<"api", "session", "save">>
  /\ reqs' = [reqs EXCEPT ![s] = Finish(r, Rejected)]
  /\ UNCHANGED <<page, now, store, sessions, minted, issued, db>>

\* The calls to the upstream API that the handler awaits have been answered
\* and their bodies read as JSON: lines 262-269 resume and line 297 calls
\* the AI; line 331 resumes and line 334 calls DB.exec; line 373 resumes and
\* line 376 sends the SELECT, or throws, at its bind, when the answer has
\* no id.
AuxDone(s) ==
  LET r == reqs[s] IN
  /\ r.pc = "aux"
  /\ \/ /\ r.req.path = <<"api", "ai-insights">>
        /\ \E artists \in TopArtistsAnswers, tracks \in TopTracksAnswers :
             reqs' = [reqs EXCEPT ![s] =
               [r EXCEPT !.pc = "ai",
                         !.locals.topArtists = itemsOf(artists),
                         !.locals.topTracks = itemsOf(tracks)]]
     \/ /\ r.req.path = <<"api", "session", "save">>
        /\ \E user \in UserAnswers :
             reqs' = [reqs EXCEPT ![s] =
               [r EXCEPT !.pc = "exec", !.locals.user = idOf(user)]]
     \/ /\ r.req.path = <<"api", "session", "history">>
        /\ \E user \in UserAnswers :
             reqs' = [reqs EXCEPT ![s] =
               IF idOf(user) = Undefined
               THEN Finish([r EXCEPT !.thrown = TypeErrorMessage],
                           caughtResponse(r.req.path, TypeErrorMessage))
               ELSE [r EXCEPT !.pc = "select", !.locals.user = idOf(user)]]
  /\ UNCHANGED <<page, now, store, sessions, minted, issued, db>>

\* handleAIInsights, lines 297-309: the AI has answered
AiDone(s) ==
  LET r == reqs[s] IN
  /\ r.pc = "ai"
  /\ reqs' = [reqs EXCEPT ![s] =
       Finish(r, jsonResponse(insightsBody(AiResponse, r.locals.topArtists,
                                           r.locals.topTracks), 200))]
  /\ UNCHANGED <<page, now, store, sessions, minted, issued, db>>

\* handleSaveSession, lines 334-358: DB.exec has resolved; the identifier
\* is drawn and the INSERT sent, unless its bind throws, to the catch of
\* lines 361-364
ExecDone(s) ==
  LET r == reqs[s] IN
  /\ r.pc = "exec"
  /\ sessions < MaxSessions
  /\ sessions' = sessions + 1
  /\ reqs' = [reqs EXCEPT ![s] =
       IF bindThrows(r.locals.user, r.locals.sessionData)
       THEN Finish([r EXCEPT !.thrown = TypeErrorMessage,
                             !.locals.sessionId = uuid(sessions + 1)],
                   caughtResponse(r.req.path, TypeErrorMessage))
       ELSE [r EXCEPT !.pc = "insert", !.locals.sessionId = uuid(sessions + 1)]]
  /\ UNCHANGED <<page, now, store, minted, issued, db>>

\* handleSaveSession, lines 358-360: the INSERT has been made
InsertDone(s) ==
  LET r == reqs[s] IN
  /\ r.pc = "insert"
  /\ reqs' = [reqs EXCEPT ![s] =
       Finish(r, jsonResponse(saveBody(r.locals.sessionId), 200))]
  /\ db' = Append(db, newRow(r.locals.sessionId, r.locals.user,
                             r.locals.sessionData, now))
  /\ UNCHANGED <<page, now, store, sessions, minted, issued>>

\* handleGetSessionHistory, lines 376-380: the SELECT has been answered
SelectDone(s) ==
  LET r == reqs[s] IN
  /\ r.pc = "select"
  /\ reqs' = [reqs EXCEPT ![s] =
       Finish(r, jsonResponse(historyBody(rowsOf(db, r.locals.user)), 200))]
  /\ UNCHANGED <<page, now, store, sessions, minted, issued, db>>

\* What an auxiliary handler awaits has failed (the reading of the body of
\* the request at line 325, fetch, the reading of an answer as JSON,
\* DB.exec, the INSERT, the SELECT, the AI): the catch block of the handler
\* answers (lines 310-316, 361-364, 381-384).
AuxFailed(s) ==
  LET r == reqs[s] IN
  /\ \/ r.pc \in {"aux", "ai", "exec", "insert", "select"}
     \/ r.pc = "body" /\ r.req.path = <<"api", "session", "save">>
  /\ \E message \in ErrorMessages :
       reqs' = [reqs EXCEPT ![s] =
         Finish([r EXCEPT !.thrown = message],
                caughtResponse(r.req.path, message))]
  /\ UNCHANGED <<page, now, store, sessions, minted, issued, db>>

\* ------------------------------------------------------------------------
\* OAuth flow controller (handleAuth, handleCallback, handleLogout)
\* ------------------------------------------------------------------------
\* url.searchParams.get(name): the first value of that name, else null
searchGet(search, name) ==
  LET at == {i \in 1 .. Len(search) : search[i][1] = name}
  IN  IF at = {} THEN Undefined ELSE search[Min(at)][2]

PageDenied == "Authorization denied: "
PageNoCode == "No authorization code received"
PageExchangeFailed == "Failed to exchange authorization code"
PageHome == "home"
PageAnalytics == "analytics"
PageParty == "party"

redirect(location, setCookie) ==
  [status |-> 302, ctype |-> "", body |-> "", location |-> location,
   setCookie |-> setCookie]

sessionCookie(sessionId) ==
  cookieOf(sessionId) \o <<";", " ", "Path=/", ";", " ", "HttpOnly", ";", " ",
                           "Secure", ";", " ", "SameSite=Lax", ";", " ",
                           "Max-Age=86400">>

clearedCookie ==
  <<CookieName, "=", ";", " ", "Path=/", ";", " ", "HttpOnly", ";", " ",
    "Secure", ";", " ", "SameSite=Lax", ";", " ", "Max-Age=0">>

\* env.SPOTIFY_CLIENT_ID and env.SPOTIFY_REDIRECT_URI of the deployment, and
\* the constants of lines 18 and 22-32 (SCOPES is the list joined with ' ')
ClientId == <<"cid">>
RedirectUri == <<"https", ":", "/", "/", "w.example", "/", "callback">>
SPOTIFY_AUTH_URL == "https://accounts.spotify.com/authorize"
ScopeList ==
  <<"user-read-private", "user-read-email", "user-library-read",
    "user-library-modify", "playlist-read-private", "playlist-modify-public",
    "playlist-modify-private", "user-top-read", "user-read-recently-played">>

\* Array.prototype.join: the elements with the separator between them
RECURSIVE join(_, _)
join(list, sep) ==
  IF list = << >> THEN << >>
  ELSE IF Len(list) = 1 THEN <<list[1]>>
  ELSE <<list[1], sep>> \o join(Tail(list), sep)

SCOPES == join(ScopeList, " ")

\* URLSearchParams serialisation of one symbol of a value
formEncode(symbol) ==
  IF symbol = " " THEN "+"
  ELSE IF symbol = ":" THEN "%3A"
  ELSE IF symbol = "/" THEN "%2F"
  ELSE symbol

RECURSIVE formEncoded(_)
formEncoded(value) ==
  IF value = << >> THEN ""
  ELSE formEncode(Head(value)) \o formEncoded(Tail(value))

\* `${SPOTIFY_AUTH_URL}?${params}`, lines 75-83
authorizeUrl(clientId, redirectUri) ==
  SPOTIFY_AUTH_URL \o "?client_id=" \o formEncoded(clientId)
    \o "&response_type=code&redirect_uri=" \o formEncoded(redirectUri)
    \o "&scope=" \o formEncoded(SCOPES) \o "&show_dialog=false"

\* an authorization start that keeps a state value in the store
handleAuthKeepingState(r, request) ==
  Finish([r EXCEPT !.req = request,
                   !.storePuts = <<[key |-> <<"state">>, value |-> "",
                                    ttl |-> 600]>>],
         [status |-> 302, ctype |-> "", body |-> "",
          location |-> authorizeUrl(ClientId, RedirectUri),
          setCookie |-> << >>])

\* handleAuth, lines 74-84
handleAuth(r, request) ==
  Finish([r EXCEPT !.req = request],
         [status |-> 302, ctype |-> "", body |-> "",
          location |-> authorizeUrl(ClientId, RedirectUri),
          setCookie |-> << >>])

\* a logout that answers 401 when the request names no session
handleLogoutChecked(r, request) ==
  IF getSessionFromCookie(request.headers) = NoSession
  THEN Finish([r EXCEPT !.req = request], jsonResponse(ErrNotAuthenticated, 401))
  ELSE Finish([r EXCEPT !.req = request], redirect("/", clearedCookie))

\* lines 139-147
handleLogout(r, request) ==
  Finish([r EXCEPT !.req = request], redirect("/", clearedCookie))

\* handleCallback testing the code before the error
handleCallbackCodeFirst(r, request) ==
  LET code == searchGet(request.search, "code")
      error == searchGet(request.search, "error")
      q == [r EXCEPT !.req = request]
  IN  IF ~Falsy(code)
      THEN [q EXCEPT !.pc = "exchange",
                     !.tokenCalls = <<[grant |-> "authorization_code",
                                       credential |-> code]>>]
      ELSE IF ~Falsy(error) THEN Finish(q, servePage(PageDenied \o error))
      ELSE Finish(q, servePage(PageNoCode))

\* handleCallback, lines 87-111
handleCallback(r, request) ==
  LET code == searchGet(request.search, "code")
      error == searchGet(request.search, "error")
      q == [r EXCEPT !.req = request]
  IN  IF ~Falsy(error) THEN Finish(q, servePage(PageDenied \o error))
      ELSE IF Falsy(code) THEN Finish(q, servePage(PageNoCode))
      ELSE [q EXCEPT !.pc = "exchange",
                     !.tokenCalls = <<[grant |-> "authorization_code",
                                       credential |-> code]>>]

\* handleCallback without the "* 1000" of line 126
exchangedRecordSeconds(data, t) ==
  [access_token |-> data.access_token,
   refresh_token |-> data.refresh_token,
   expires_at |-> t + data.expires_in]

\* lines 119-126: the record built from the token response
exchangedRecord(data, t) ==
  [access_token |-> data.access_token,
   refresh_token |-> data.refresh_token,
   expires_at |-> t + data.expires_in * 1000]

\* what the token endpoint answers when it refuses a grant
TokenErrors ==
  {[status |-> 400, body |-> "{\"error\":\"invalid_grant\"}"],
   [status |-> 401, body |-> "{\"error\":\"invalid_client\"}"]}

\* handleCallback showing the text it logs on line 115
ExchangeRefusedShowing(s) ==
  LET r == reqs[s] IN
  /\ r.pc = "exchange"
  /\ \E answer \in TokenErrors :
       reqs' = [reqs EXCEPT ![s] =
         Finish([r EXCEPT !.tokenResp = answer],
                servePage(PageExchangeFailed \o ": " \o answer.body))]
  /\ UNCHANGED <<page, now, store, sessions, minted, issued, db>>

\* lines 113-117: a non-success status
ExchangeRefused(s) ==
  LET r == reqs[s] IN
  /\ r.pc = "exchange"
  /\ \E answer \in TokenErrors :
       reqs' = [reqs EXCEPT ![s] =
         Finish([r EXCEPT !.tokenResp = answer], servePage(PageExchangeFailed))]
  /\ UNCHANGED <<page, now, store, sessions, minted, issued, db>>

\* line 100 or line 119 throws; nothing catches it
ExchangeFailed(s) ==
  LET r == reqs[s] IN
  /\ r.pc = "exchange"
  /\ \E failure \in {"network", "body"} :
       reqs' = [reqs EXCEPT ![s] = Finish(r, Rejected)]
  /\ UNCHANGED <<page, now, store, sessions, minted, issued, db>>

\* lines 119-127: the session identifier is drawn and the put is issued
ExchangeDone(s) ==
  LET r == reqs[s] IN
  /\ r.pc = "exchange"
  /\ sessions < MaxSessions
  /\ \E data \in TokenData :
       /\ minted + Mints(data) <= MaxTokens
       /\ minted' = minted + Mints(data)
       /\ sessions' = sessions + 1
       /\ reqs' = [reqs EXCEPT ![s] =
            [r EXCEPT !.pc = "created", !.sessionId = uuid(sessions + 1),
                      !.data = data, !.decidedAt = now,
                      !.tokens = exchangedRecord(data, now)]]
       /\ issued' = [sessionId |-> uuid(sessions + 1),
                     access_token |-> data.access_token,
                     expires_in |-> data.expires_in, at |-> now]
  /\ UNCHANGED <<page, now, store, db>>

\* handleCallback keeping the session identifier of the cookie it was sent
CallbackPutDoneKeepingCookie(s) ==
  LET r == reqs[s]
      text == JSONstringify(r.tokens)
      sent == getSessionFromCookie(r.req.headers)
      key == IF sent = NoSession THEN r.sessionId ELSE sent
  IN
  /\ r.pc = "created"
  /\ store' = kvPut(store, key, text, SessionTtl, now)
  /\ reqs' = [reqs EXCEPT ![s] =
       Finish([r EXCEPT !.storePuts = <<[key |-> key, value |-> text,
                                         ttl |-> SessionTtl]>>],
              redirect("/party", sessionCookie(key)))]
  /\ UNCHANGED <<page, now, sessions, minted, issued, db>>

\* line 127 completes; lines 130-136
CallbackPutDone(s) ==
  LET r == reqs[s]
      text == JSONstringify(r.tokens)
  IN
  /\ r.pc = "created"
  /\ store' = kvPut(store, r.sessionId, text, SessionTtl, now)
  /\ reqs' = [reqs EXCEPT ![s] =
       Finish([r EXCEPT !.storePuts = <<[key |-> r.sessionId, value |-> text,
                                         ttl |-> SessionTtl]>>],
              redirect("/party", sessionCookie(r.sessionId)))]
  /\ UNCHANGED <<page, now, sessions, minted, issued, db>>

\* line 123: the write to the store rejects; no record, no cookie
CallbackPutFailed(s) ==
  LET r == reqs[s] IN
  /\ r.pc = "created"
  /\ reqs' = [reqs EXCEPT ![s] = Finish([r EXCEPT !.thrown = StoreError], Rejected)]
  /\ UNCHANGED <<page, now, store, sessions, minted, issued, db>>

\* ------------------------------------------------------------------------
\* Request router (fetch, lines 39-67)
\* ------------------------------------------------------------------------
startsWithApi(path) == Len(path) >= 2 /\ path[1] = "api"

route(r, request) ==
  LET path == request.path
      q == [r EXCEPT !.req = request]
  IN  IF path = << >> THEN Finish(q, servePage(PageHome))
      ELSE IF path = <<"analytics">> THEN Finish(q, servePage(PageAnalytics))
      ELSE IF path = <<"party">> THEN Finish(q, servePage(PageParty))
      ELSE IF path = <<"auth">> THEN handleAuth(r, request)
      ELSE IF path = <<"callback">> THEN handleCallback(r, request)
      ELSE IF path = <<"logout">> THEN handleLogout(r, request)
      ELSE IF startsWithApi(path) THEN handleAPI(r, request)
      ELSE Finish(q, [status |-> 404, ctype |-> "text/plain;charset=UTF-8",
                      body |-> "Not Found", location |-> "", setCookie |-> << >>])

PageRequests ==
  UNION {Inbound("GET", p, << >>, "", {NoHeaders}) :
           p \in {<< >>, <<"analytics">>, <<"party">>, <<"auth">>, <<"logout">>,
                  <<"api">>, <<"favicon.ico">>}}
    \cup UNION {Inbound("GET", p, << >>, "", {withCookie(cookieOf(uuid(1)))}) :
                  p \in {<<"party">>, <<"auth">>, <<"logout">>}}

CallbackRequests ==
  UNION {Inbound("GET", <<"callback">>, q, "", {NoHeaders}) :
           q \in {<< >>, <<<<"code", "c1">>>>, <<<<"error", "access_denied">>>>,
                  <<<<"code", "c1">>, <<"error", "access_denied">>>>,
                  <<<<"error", "">>, <<"code", "c1">>>>}}
    \cup Inbound("GET", <<"callback">>, <<<<"code", "c1">>>>, "",
                 {withCookie(cookieOf(uuid(1)))})

InboundRequests == ApiRequests \cup PageRequests \cup CallbackRequests

\* A request arrives and runs to its first await (or to its response).
\* Spec takes the requests one at a time, in slot 1; SpecRace below lets
\* them overlap.
Fetch(s) ==
  /\ \A t \in Slots : reqs[t].pc = "idle"
  /\ s = 1
  /\ \E request \in InboundRequests : reqs' = [reqs EXCEPT ![s] = route(Idle, request)]
  /\ UNCHANGED <<page, now, store, sessions, minted, issued, db>>

\* The response has been delivered; the request's state is gone.
Retire(s) ==
  /\ reqs[s].pc = "done"
  /\ reqs' = [reqs EXCEPT ![s] = Idle]
  /\ UNCHANGED <<page, now, store, sessions, minted, issued, db>>

\* Date.now() moves on.
Tick ==
  /\ \E t \in Instants : t > now /\ now' = t
  /\ UNCHANGED <<page, store, reqs, sessions, minted, issued, db>>

Next ==
  \/ \E s \in Slots : Fetch(s)
  \/ \E s \in Slots : StoreGetDone(s)
  \/ \E s \in Slots : StoreGetFailed(s)
  \/ \E s \in Slots : RefreshFailed(s)
  \/ \E s \in Slots : RefreshDone(s)
  \/ \E s \in Slots : StorePutDone(s)
  \/ \E s \in Slots : StorePutFailed(s)
  \/ \E s \in Slots : BodyRead(s)
  \/ \E s \in Slots : BodyFailed(s)
  \/ \E s \in Slots : UpstreamDone(s)
  \/ \E s \in Slots : UpstreamFailed(s)
  \/ \E s \in Slots : ExchangeRefused(s)
  \/ \E s \in Slots : ExchangeFailed(s)
  \/ \E s \in Slots : ExchangeDone(s)
  \/ \E s \in Slots : CallbackPutDone(s)
  \/ \E s \in Slots : CallbackPutFailed(s)
  \/ \E s \in Slots : Retire(s)
  \/ Tick

Spec == Init /\ [][Next]_vars

\* The resumption of request s after the call it awaits: every call to the
\* store, the token endpoint and the upstream API completes, with a result
\* or a failure, and the runtime then resumes the handler.
Completes(s) ==
  \/ StoreGetDone(s)
  \/ StoreGetFailed(s)
  \/ RefreshFailed(s)
  \/ RefreshDone(s)
  \/ StorePutDone(s)
  \/ StorePutFailed(s)
  \/ BodyRead(s)
  \/ BodyFailed(s)
  \/ UpstreamDone(s)
  \/ UpstreamFailed(s)
  \/ ExchangeRefused(s)
  \/ ExchangeFailed(s)
  \/ ExchangeDone(s)
  \/ CallbackPutDone(s)
  \/ CallbackPutFailed(s)

SpecLive == Spec /\ \A s \in Slots : WF_vars(Completes(s))

\* ------------------------------------------------------------------------
\* Requests that overlap: Spec above takes one request at a time; here
\* MaxInflight requests of one session arrive and run at once.  The start is a
\* state of Spec: the callback ran at 0 with a lifetime of 61 seconds.
\* ------------------------------------------------------------------------
RaceRequests ==
  Inbound("GET", <<"api", "me", "tracks">>, <<<<"limit", "50">>>>, "",
          {withCookie(cookieOf(uuid(1)))})

RaceInit ==
  /\ page = NoPage
  /\ now = 0
  /\ store = kvPut(<< >>, uuid(1),
                   JSONstringify([access_token |-> token(1),
                                  refresh_token |-> token(2),
                                  expires_at |-> 61000]),
                   SessionTtl, 0)
  /\ reqs = [s \in Slots |-> Idle]
  /\ sessions = 1
  /\ db = << >>
  /\ minted = 2
  /\ issued = [sessionId |-> uuid(1), access_token |-> token(1),
               expires_in |-> 61, at |-> 0]

FetchRace(s) ==
  /\ reqs[s].pc = "idle"
  /\ \A t \in Slots : t < s => reqs[t].pc # "idle"
  /\ \E request \in RaceRequests : reqs' = [reqs EXCEPT ![s] = route(Idle, request)]
  /\ UNCHANGED <<page, now, store, sessions, minted, issued, db>>

RaceNext ==
  \/ \E s \in Slots : FetchRace(s)
  \/ \E s \in Slots : StoreGetDone(s)
  \/ \E s \in Slots : StoreGetFailed(s)
  \/ \E s \in Slots : RefreshFailed(s)
  \/ \E s \in Slots : RefreshDone(s)
  \/ \E s \in Slots : StorePutDone(s)
  \/ \E s \in Slots : StorePutFailed(s)
  \/ \E s \in Slots : UpstreamDone(s)
  \/ \E s \in Slots : UpstreamFailed(s)
  \/ Tick

SpecRace == RaceInit /\ [][RaceNext]_vars

\* ------------------------------------------------------------------------
\* A browser that logs out and whose session identifier is presented again.
\* The logout stays in slot 2 while the requests that follow it run in
\* slot 1.  The start is the same state of Spec as in RaceInit.
\* ------------------------------------------------------------------------
LogoutRequests ==
  Inbound("GET", <<"logout">>, << >>, "", {withCookie(cookieOf(uuid(1)))})

\* a logout that removes the record of the session named by the cookie
FetchLogoutDeleting(s) ==
  /\ s = 2 /\ \A t \in Slots : reqs[t].pc = "idle"
  /\ \E request \in LogoutRequests :
       /\ reqs' = [reqs EXCEPT ![s] = route(Idle, request)]
       /\ store' = [k \in DOMAIN store \ {getSessionFromCookie(request.headers)}
                      |-> store[k]]
  /\ UNCHANGED <<page, now, sessions, minted, issued, db>>

FetchLogout(s) ==
  /\ s = 2 /\ \A t \in Slots : reqs[t].pc = "idle"
  /\ \E request \in LogoutRequests :
       reqs' = [reqs EXCEPT ![s] = route(Idle, request)]
  /\ UNCHANGED <<page, now, store, sessions, minted, issued, db>>

LoggedOut == reqs[2].pc = "done" /\ reqs[2].req.path = <<"logout">>

FetchAfterLogout(s) ==
  /\ s = 1 /\ reqs[s].pc = "idle" /\ LoggedOut
  /\ \E request \in RaceRequests : reqs' = [reqs EXCEPT ![s] = route(Idle, request)]
  /\ UNCHANGED <<page, now, store, sessions, minted, issued, db>>

LogoutNext ==
  \/ \E s \in Slots : FetchLogout(s)
  \/ \E s \in Slots : FetchAfterLogout(s)
  \/ \E s \in Slots : StoreGetDone(s)
  \/ \E s \in Slots : StoreGetFailed(s)
  \/ \E s \in Slots : RefreshFailed(s)
  \/ \E s \in Slots : RefreshDone(s)
  \/ \E s \in Slots : StorePutDone(s)
  \/ \E s \in Slots : StorePutFailed(s)
  \/ \E s \in Slots : UpstreamDone(s)
  \/ \E s \in Slots : UpstreamFailed(s)
  \/ \E s \in Slots : Retire(s)
  \/ Tick

SpecLogout == RaceInit /\ [][LogoutNext]_vars

\* ------------------------------------------------------------------------
\* The requests that handleAPI answers itself: insights, the saving of a
\* sorting session and the history of the sessions saved.  They are taken
\* one at a time, as in Spec, from the same state of Spec as in RaceInit, and
\* go through the same resolver and refresher.
\* ------------------------------------------------------------------------
FetchAux(s) ==
  /\ \A t \in Slots : reqs[t].pc = "idle"
  /\ s = 1
  /\ \E request \in AuxRequests : reqs' = [reqs EXCEPT ![s] = route(Idle, request)]
  /\ UNCHANGED <<page, now, store, sessions, minted, issued, db>>

AuxNext ==
  \/ \E s \in Slots : FetchAux(s)
  \/ \E s \in Slots : StoreGetDone(s)
  \/ \E s \in Slots : StoreGetFailed(s)
  \/ \E s \in Slots : RefreshFailed(s)
  \/ \E s \in Slots : RefreshDone(s)
  \/ \E s \in Slots : StorePutDone(s)
  \/ \E s \in Slots : StorePutFailed(s)
  \/ \E s \in Slots : BodyRead(s)
  \/ \E s \in Slots : AuxDone(s)
  \/ \E s \in Slots : AiDone(s)
  \/ \E s \in Slots : ExecDone(s)
  \/ \E s \in Slots : InsertDone(s)
  \/ \E s \in Slots : SelectDone(s)
  \/ \E s \in Slots : AuxFailed(s)
  \/ \E s \in Slots : Retire(s)
  \/ Tick

SpecAux == RaceInit /\ [][AuxNext]_vars

\* ------------------------------------------------------------------------
\* The party page's script (lines 1720-2212): the sorter.  songs is the
\* list of loadSongs, a track standing for its item; indices count from 0 as
\* in the script.  liked is the user's Liked Songs at the service.
\* ------------------------------------------------------------------------
Tracks == {"t" \o ToString(i) : i \in 1 .. MaxSongs}
Library == [i \in 1 .. MaxSongs |-> "t" \o ToString(i)]
PlaylistNames == {"p1"}

validIndex(songs, i) == i >= 0 /\ i < Len(songs)

Range(seq) == {seq[i] : i \in 1 .. Len(seq)}

\* selectedSongs is a Set of row indices, and a Set keeps its elements in the
\* order of their insertion: it is the sequence of Array.from(selectedSongs).
setHas(set, x) == x \in Range(set)
setAdd(set, x) == IF setHas(set, x) THEN set ELSE Append(set, x)
setDelete(set, x) == SelectSeq(set, LAMBDA y : y # x)

\* songs.forEach((_, i) => selectedSongs.add(i)) from row i on, line 2160
RECURSIVE addRows(_, _, _)
addRows(set, i, n) ==
  IF i >= n THEN set ELSE addRows(setAdd(set, i), i + 1, n)

\* indices.sort((a, b) => b - a).forEach(i => songs.splice(i, 1)): the rows
\* are taken out from the last to the first, so that each index still names
\* its row; an index at or past the end removes nothing
spliceAll(songs, indices) ==
  LET keep == {i \in 1 .. Len(songs) : (i - 1) \notin Range(indices)}
      nth(j) == CHOOSE i \in keep : Cardinality({k \in keep : k <= i}) = j
  IN  [j \in 1 .. Cardinality(keep) |-> songs[nth(j)]]

\* indices.map(i => songs[i]).filter(Boolean): the tracks in the order of
\* the indices, without those of indices that name no row
tracksAt(songs, indices) ==
  LET named == SelectSeq(indices, LAMBDA i : validIndex(songs, i))
  IN  [j \in 1 .. Len(named) |-> songs[named[j] + 1]]

\* item.track.artists[0]?.genres || []: the first track's artist has a
\* genre, the others have none
genresOf(track) == IF track = "t1" THEN {"pop"} ELSE {}

\* obj[name] || 0
countOf(used, name) == IF name \in DOMAIN used THEN used[name] ELSE 0

\* lines 1945-1953: currentSongIndex after the splices (playSong sets it to
\* the index it is given, when that index is valid)
indexAfterMove(current, indices, songs) ==
  IF current \in Range(indices)
  THEN IF current <= Len(songs) - 1 THEN current ELSE Len(songs) - 1
  ELSE IF indices # << >> /\ current > Min(Range(indices))
  THEN current - Cardinality({i \in Range(indices) : i < current})
  ELSE current

\* the page once init() has come to its end: the Liked Songs are in the
\* list, the playlists are loaded and the listeners installed
SorterInit ==
  /\ page = [NoPage EXCEPT !.songs = Library, !.liked = Tracks,
                           !.playlists = PlaylistNames, !.stage = "ready"]
  /\ now = 0
  /\ store = << >>
  /\ reqs = [s \in Slots |-> Idle]
  /\ sessions = 0
  /\ db = << >>
  /\ minted = 0
  /\ issued = NoExchange

\* handleSongClick on a checkbox, lines 1966-1975
Select(i) ==
  /\ validIndex(page.songs, i)
  /\ page' = [page EXCEPT !.selectedSongs =
                 IF setHas(@, i) THEN setDelete(@, i) ELSE setAdd(@, i)]
  /\ UNCHANGED <<now, store, reqs, sessions, minted, issued, db>>

\* handleSongClick elsewhere on the row: playSong(index), lines 1982-1985
PlaySong(i) ==
  /\ validIndex(page.songs, i)
  /\ page' = [page EXCEPT !.currentSongIndex = i]
  /\ UNCHANGED <<now, store, reqs, sessions, minted, issued, db>>

\* a call of moveSongsToPlaylist awaiting the answer to its POST (pc
\* "adding") or to its DELETE ("removing"); served tells what the service
\* has made of that request: nothing yet ("no"), done it ("ok"), or
\* answered with a status that is not ok ("refused")
inflight(pc, indices, tracks, playlist) ==
  [pc |-> pc, served |-> "no", indices |-> indices, tracks |-> tracks,
   playlist |-> playlist]

awaiting(pg, mv) == mv \in BagToSet(pg.moves)
resumed(pg, mv) == pg.moves (-) SetToBag({mv})

\* moveSongsToPlaylist up to the POST of line 1903
startMove(pg, indices, playlist) ==
  LET tracksToMove == tracksAt(pg.songs, indices)
  IN  IF Len(tracksToMove) = 0 THEN pg
      ELSE [pg EXCEPT !.moves =
              @ (+) SetToBag({inflight("adding", indices, tracksToMove,
                                       playlist)})]

\* handleDrop, lines 1872-1891: the row dragged, or the whole selection
\* when the row dragged is part of it
Drop ==
  /\ BagCardinality(page.moves) < MaxMoves
  /\ \E draggedIndex \in 0 .. Len(page.songs) - 1, playlist \in page.playlists :
       /\ validIndex(page.songs, draggedIndex)
       /\ page' = startMove(page,
                            IF page.selectedSongs # << >>
                                 /\ setHas(page.selectedSongs, draggedIndex)
                            THEN page.selectedSongs ELSE <<draggedIndex>>,
                            playlist)
  /\ UNCHANGED <<now, store, reqs, sessions, minted, issued, db>>

\* The service handles the POST of a move: it puts the tracks in the
\* playlist and answers ok, or answers with a status that is not ok.  The
\* answer reaches the page in a later step.
ServeAdd(mv) ==
  /\ awaiting(page, mv) /\ mv.pc = "adding" /\ mv.served = "no"
  /\ \E ok \in BOOLEAN :
       page' = [page EXCEPT
                  !.inPlaylist = IF ok THEN @ \cup Range(mv.tracks) ELSE @,
                  !.moves = resumed(page, mv)
                    (+) SetToBag({[mv EXCEPT !.served =
                                     IF ok THEN "ok" ELSE "refused"]})]
  /\ UNCHANGED <<now, store, reqs, sessions, minted, issued, db>>

\* The service handles the DELETE of a move: it takes the tracks out of the
\* Liked Songs and answers ok, or answers with a status that is not ok.
ServeRemove(mv) ==
  /\ awaiting(page, mv) /\ mv.pc = "removing" /\ mv.served = "no"
  /\ \E ok \in BOOLEAN :
       page' = [page EXCEPT
                  !.liked = IF ok THEN @ \ Range(mv.tracks) ELSE @,
                  !.moves = resumed(page, mv)
                    (+) SetToBag({[mv EXCEPT !.served =
                                     IF ok THEN "ok" ELSE "refused"]})]
  /\ UNCHANGED <<now, store, reqs, sessions, minted, issued, db>>

\* moveSongsToPlaylist going on to the DELETE when the POST has failed
AddFailedRemoving(mv) ==
  /\ awaiting(page, mv) /\ mv.pc = "adding"
  /\ page' = [page EXCEPT !.moves =
                 resumed(page, mv)
                   (+) SetToBag({[mv EXCEPT !.pc = "removing", !.served = "no"]})]
  /\ UNCHANGED <<now, store, reqs, sessions, minted, issued, db>>

\* lines 1909-1911 and the catch of lines 1957-1960: the POST was answered
\* with a status that is not ok, or fetch threw, whether the service had
\* handled the request (its answer lost) or not
AddFailed(mv) ==
  /\ awaiting(page, mv) /\ mv.pc = "adding"
  /\ page' = [page EXCEPT !.moves = resumed(page, mv)]
  /\ UNCHANGED <<now, store, reqs, sessions, minted, issued, db>>

\* the answer to the POST, ok, has reached the page; the DELETE of line
\* 1914 is issued
AddDone(mv) ==
  /\ awaiting(page, mv) /\ mv.pc = "adding" /\ mv.served = "ok"
  /\ page' = [page EXCEPT !.moves =
                 resumed(page, mv)
                   (+) SetToBag({[mv EXCEPT !.pc = "removing", !.served = "no"]})]
  /\ UNCHANGED <<now, store, reqs, sessions, minted, issued, db>>

\* lines 1922-1955, after the DELETE was answered
finishMove(pg, mv) ==
  LET n == Len(mv.tracks)
      left == spliceAll(pg.songs, mv.indices)
  IN  [pg EXCEPT
         !.songsSorted = @ + n,
         !.playlistsUsed =
           [name \in DOMAIN @ \cup {mv.playlist} |->
              IF name = mv.playlist THEN countOf(@, name) + n ELSE @[name]],
         !.genresSorted =
           LET with(g) == Cardinality({i \in 1 .. n : g \in genresOf(mv.tracks[i])})
               new == UNION {genresOf(mv.tracks[i]) : i \in 1 .. n}
           IN  [g \in DOMAIN @ \cup new |-> countOf(@, g) + with(g)],
         !.songs = left,
         !.selectedSongs = << >>,
         !.currentSongIndex = indexAfterMove(@, mv.indices, left),
         !.moves = resumed(pg, mv)]

\* the answer to the DELETE, ok or not, has reached the page (lines
\* 1918-1920 only warn)
RemoveDone(mv) ==
  /\ awaiting(page, mv) /\ mv.pc = "removing" /\ mv.served # "no"
  /\ page' = finishMove(page, mv)
  /\ UNCHANGED <<now, store, reqs, sessions, minted, issued, db>>

\* fetch of the DELETE threw, whether the service had handled the request
\* (its answer lost) or not: the catch of lines 1957-1960
RemoveFailed(mv) ==
  /\ awaiting(page, mv) /\ mv.pc = "removing"
  /\ page' = [page EXCEPT !.moves = resumed(page, mv)]
  /\ UNCHANGED <<now, store, reqs, sessions, minted, issued, db>>

\* the modal's playlist entry clicked, lines 2069-2073: the whole selection
BulkMove ==
  /\ page.stage = "ready"
  /\ BagCardinality(page.moves) < MaxMoves
  /\ page.selectedSongs # << >>
  /\ \E playlist \in page.playlists :
       page' = startMove(page, page.selectedSongs, playlist)
  /\ UNCHANGED <<now, store, reqs, sessions, minted, issued, db>>

\* the selectAll checkbox, lines 2158-2165
SelectAll ==
  /\ page.stage = "ready"
  /\ \E checked \in BOOLEAN :
       page' = [page EXCEPT !.selectedSongs =
                  IF checked THEN addRows(@, 0, Len(page.songs)) ELSE << >>]
  /\ UNCHANGED <<now, store, reqs, sessions, minted, issued, db>>

\* playNext, lines 2027-2031: the next button, or the preview of the song
\* playing has ended (the listener of line 2045 is installed from the start)
PlayNext ==
  /\ page.stage = "ready" \/ page.currentSongIndex >= 0
  /\ page.currentSongIndex < Len(page.songs) - 1
  /\ validIndex(page.songs, page.currentSongIndex + 1)
  /\ page' = [page EXCEPT !.currentSongIndex = @ + 1]
  /\ UNCHANGED <<now, store, reqs, sessions, minted, issued, db>>

\* playPrev, lines 2033-2037
PlayPrev ==
  /\ page.stage = "ready"
  /\ page.currentSongIndex > 0
  /\ validIndex(page.songs, page.currentSongIndex - 1)
  /\ page' = [page EXCEPT !.currentSongIndex = @ - 1]
  /\ UNCHANGED <<now, store, reqs, sessions, minted, issued, db>>

\* the Liked Songs as the service lists them
likedList(liked) ==
  LET at == {i \in 1 .. MaxSongs : Library[i] \in liked}
      nth(j) == CHOOSE i \in at : Cardinality({k \in at : k <= i}) = j
  IN  [j \in 1 .. Cardinality(at) |-> Library[nth(j)]]

\* a call of loadSongs awaiting the answer to its GET; served and items:
\* whether the service has answered, and the list of its answer
listing == [served |-> "no", items |-> << >>]

\* loadSongs up to its fetch of line 1759
loadSongs(pg) == [pg EXCEPT !.loading = @ (+) SetToBag({listing})]

\* init() at the end of the script (line 2212), up to its fetch of line 1735
PageInit ==
  /\ page = [NoPage EXCEPT !.stage = "auth", !.liked = Tracks]
  /\ now = 0
  /\ store = << >>
  /\ reqs = [s \in Slots |-> Idle]
  /\ sessions = 0
  /\ db = << >>
  /\ minted = 0
  /\ issued = NoExchange

\* init(), lines 1735-1742: /api/me has answered ok and the two loads are
\* started; or it has answered with another status and the browser is sent
\* to /; or fetch threw, which nothing catches
AuthDone ==
  /\ page.stage = "auth"
  /\ \E outcome \in {"ok", "refused", "threw"} :
       page' = IF outcome = "ok"
               THEN [loadSongs(page) EXCEPT !.stage = "init",
                                            !.playlistsLoading = TRUE]
               ELSE [page EXCEPT !.stage =
                       IF outcome = "refused" THEN "left" ELSE "stalled"]
  /\ UNCHANGED <<now, store, reqs, sessions, minted, issued, db>>

\* init(), lines 1742-1743: setupEventListeners runs once loadSongs and
\* loadPlaylists have both come to their end
settled(pg) ==
  IF pg.stage = "init" /\ pg.loading = EmptyBag /\ ~pg.playlistsLoading
  THEN [pg EXCEPT !.stage = "ready"]
  ELSE pg

\* loadPlaylists resumed, lines 1772-1778: the playlists of the answer, or
\* none when the answer has no items or the call failed
PlaylistsDone ==
  /\ page.playlistsLoading
  /\ \E names \in {PlaylistNames, {}} :
       page' = settled([page EXCEPT !.playlistsLoading = FALSE,
                                    !.playlists = names])
  /\ UNCHANGED <<now, store, reqs, sessions, minted, issued, db>>

\* the refresh button, line 2155: loadSongs up to its fetch of line 1759
Refresh ==
  /\ page.stage = "ready"
  /\ page.loads < MaxLoads
  /\ page' = [loadSongs(page) EXCEPT !.loads = @ + 1]
  /\ UNCHANGED <<now, store, reqs, sessions, minted, issued, db>>

\* The service handles the GET of a load: its answer has the Liked Songs of
\* that moment, or no items (the 401 bodies of the worker).  The answer
\* reaches the page in a later step.
ServeList ==
  /\ listing \in BagToSet(page.loading)
  /\ \E items \in {likedList(page.liked), << >>} :
       page' = [page EXCEPT !.loading =
                  (@ (-) SetToBag({listing}))
                    (+) SetToBag({[served |-> "ok", items |-> items]})]
  /\ UNCHANGED <<now, store, reqs, sessions, minted, issued, db>>

\* loadSongs resumed with the answer, lines 1759-1762: data.items || []
\* (the two awaits are one step: the first resumption changes nothing)
LoadDone ==
  /\ \E load \in BagToSet(page.loading) :
       /\ load.served = "ok"
       /\ page' = settled([page EXCEPT !.loading = @ (-) SetToBag({load}),
                                       !.songs = load.items])
  /\ UNCHANGED <<now, store, reqs, sessions, minted, issued, db>>

\* fetch threw, or the body of the answer was no JSON text: the catch of
\* lines 1763-1766 leaves songs as it was
LoadFailed ==
  /\ \E load \in BagToSet(page.loading) :
       page' = settled([page EXCEPT !.loading = @ (-) SetToBag({load})])
  /\ UNCHANGED <<now, store, reqs, sessions, minted, issued, db>>

\* endSession up to its fetch of line 2087
EndSession ==
  /\ page.stage = "ready"
  /\ page.saving < MaxSaves
  /\ page' = [page EXCEPT !.saving = @ + 1]
  /\ UNCHANGED <<now, store, reqs, sessions, minted, issued, db>>

\* endSession resumed, lines 2097-2102: the save was answered, or fetch
\* threw; the summary is displayed
SaveDone ==
  /\ page.saving > 0
  /\ page' = [page EXCEPT !.saving = @ - 1, !.summary = TRUE]
  /\ UNCHANGED <<now, store, reqs, sessions, minted, issued, db>>

\* a click on the overlay of the summary, lines 2189-2194
CloseSummary ==
  /\ page.summary
  /\ page' = [page EXCEPT !.summary = FALSE]
  /\ UNCHANGED <<now, store, reqs, sessions, minted, issued, db>>

\* the New Session button of the summary, lines 2184-2186: the browser
\* loads the page again.  The script starts anew, with its variables as at
\* lines 1721-1729, and calls init(); the calls of the old page are
\* abandoned: what the service has not handled of them it handles no more.
NewSession ==
  /\ page.stage = "ready" /\ page.summary
  /\ page.loads < MaxLoads
  /\ page' = [NoPage EXCEPT !.stage = "auth", !.liked = page.liked,
                            !.inPlaylist = page.inPlaylist,
                            !.loads = page.loads + 1]
  /\ UNCHANGED <<now, store, reqs, sessions, minted, issued, db>>

SorterNext ==
  \/ \E i \in 0 .. MaxSongs - 1 : Select(i)
  \/ \E i \in 0 .. MaxSongs - 1 : PlaySong(i)
  \/ SelectAll
  \/ PlayNext
  \/ PlayPrev
  \/ Drop
  \/ BulkMove
  \/ \E mv \in BagToSet(page.moves) : ServeAdd(mv)
  \/ \E mv \in BagToSet(page.moves) : ServeRemove(mv)
  \/ \E mv \in BagToSet(page.moves) : AddFailed(mv)
  \/ \E mv \in BagToSet(page.moves) : AddDone(mv)
  \/ \E mv \in BagToSet(page.moves) : RemoveDone(mv)
  \/ \E mv \in BagToSet(page.moves) : RemoveFailed(mv)

SpecSorter == SorterInit /\ [][SorterNext]_vars

\* ------------------------------------------------------------------------
\* The page from the start of its script: SpecSorter above begins with the
\* list loaded, lets the moves overlap and never loads the list again;
\* here init() loads it, the refresh button and the New Session button load
\* it again, before, during and after moves that are made one at a time,
\* and sessions are ended.
\* ------------------------------------------------------------------------
RefreshNext ==
  \/ \E i \in 0 .. MaxSongs - 1 : Select(i)
  \/ \E i \in 0 .. MaxSongs - 1 : PlaySong(i)
  \/ SelectAll
  \/ PlayNext
  \/ PlayPrev
  \/ page.moves = EmptyBag /\ Drop
  \/ page.moves = EmptyBag /\ BulkMove
  \/ AuthDone
  \/ PlaylistsDone
  \/ Refresh
  \/ ServeList
  \/ LoadDone
  \/ LoadFailed
  \/ EndSession
  \/ SaveDone
  \/ CloseSummary
  \/ NewSession
  \/ \E mv \in BagToSet(page.moves) : ServeAdd(mv)
  \/ \E mv \in BagToSet(page.moves) : ServeRemove(mv)
  \/ \E mv \in BagToSet(page.moves) : AddFailed(mv)
  \/ \E mv \in BagToSet(page.moves) : AddDone(mv)
  \/ \E mv \in BagToSet(page.moves) : RemoveDone(mv)
  \/ \E mv \in BagToSet(page.moves) : RemoveFailed(mv)

SpecRefresh == PageInit /\ [][RefreshNext]_vars

\* ------------------------------------------------------------------------
\* One move at a time on a list of up to MaxRows rows, from any selection
\* and any song playing: what lines 1937-1953 make of songs and of
\* currentSongIndex.
\* ------------------------------------------------------------------------
Rows == [i \in 1 .. MaxRows |-> "t" \o ToString(i)]

\* the selections of rows 0 .. n - 1, in every order of ticking
Selections(n) ==
  {q \in UNION {[1 .. k -> 0 .. n - 1] : k \in 0 .. n} :
     \A i, j \in DOMAIN q : i # j => q[i] # q[j]}

MoveInit ==
  /\ \E n \in 1 .. MaxRows :
       \E selected \in Selections(n), current \in -1 .. n - 1 :
         page = [NoPage EXCEPT !.stage = "ready",
                               !.playlists = PlaylistNames,
                               !.songs = SubSeq(Rows, 1, n),
                               !.liked = {Rows[i] : i \in 1 .. n},
                               !.selectedSongs = selected,
                               !.currentSongIndex = current]
  /\ now = 0
  /\ store = << >>
  /\ reqs = [s \in Slots |-> Idle]
  /\ sessions = 0
  /\ db = << >>
  /\ minted = 0
  /\ issued = NoExchange

MoveNext ==
  \/ page.moves = EmptyBag /\ Drop
  \/ page.moves = EmptyBag /\ BulkMove
  \/ \E mv \in BagToSet(page.moves) : ServeAdd(mv)
  \/ \E mv \in BagToSet(page.moves) : ServeRemove(mv)
  \/ \E mv \in BagToSet(page.moves) : AddFailed(mv)
  \/ \E mv \in BagToSet(page.moves) : AddDone(mv)
  \/ \E mv \in BagToSet(page.moves) : RemoveDone(mv)
  \/ \E mv \in BagToSet(page.moves) : RemoveFailed(mv)

SpecMove == MoveInit /\ [][MoveNext]_vars

\* ========================================================================
\* Properties
\* ========================================================================
IsApi(r) == r.pc # "idle" /\ startsWithApi(r.req.path)

\* the request read a record from the store (line 166 was reached)
Resolved(r) == IsApi(r) /\ r.tokenData # NoRecord

\* a call of the request to the store rejected (line 123, 161 or 172)
StoreRejected(r) == r.thrown = StoreError

\* line 169 held for the record read, at the time it was evaluated
WasDue(r) == r.decidedAt >= r.tokenData.expires_at - 60000

AuxPaths == {<<"api", "ai-insights">>, <<"api", "session", "save">>,
             <<"api", "session", "history">>}

Proxied(r) == IsApi(r) /\ r.req.path \notin AuxPaths

\* C1: a request whose record is within 60000 ms of its expiry and whose
\* refresh succeeds makes exactly one call to the token endpoint, a refresh
\* grant, and every upstream call it then makes carries the access token of
\* the refresh response, which is not the access token it read.
C1_OneRefreshThenNewToken ==
  \A s \in Slots :
    LET r == reqs[s] IN
    (Resolved(r) /\ WasDue(r))
      => /\ Len(r.tokenCalls) = 1
         /\ r.tokenCalls[1].grant = "refresh_token"
         /\ r.upstream # << >> => r.refreshed
         /\ r.refreshed =>
              /\ r.data.access_token # r.tokenData.access_token
              /\ \A i \in 1 .. Len(r.upstream) :
                   r.upstream[i].headers["Authorization"]
                     = <<"Bearer", r.data.access_token>>

C1_Witness ==
  \E s \in Slots :
    /\ reqs[s].pc = "done" /\ reqs[s].refreshed /\ WasDue(reqs[s])
    /\ Len(reqs[s].upstream) = 1 /\ reqs[s].resp.status = 200

\* C2: a request whose refresh was required and failed is answered 401 and
\* has made no upstream call.
C2_RefreshFailureIs401 ==
  \A s \in Slots :
    LET r == reqs[s] IN
    (Resolved(r) /\ WasDue(r) /\ ~r.refreshed)
      => /\ r.upstream = << >>
         /\ r.pc \in {"refresh", "done"}
         /\ r.pc = "done" => (r.resp.status = 401 /\ r.resp.body = ErrRefreshFailed)

C2_Witness ==
  \E s \in Slots :
    /\ Resolved(reqs[s]) /\ WasDue(reqs[s]) /\ ~reqs[s].refreshed
    /\ reqs[s].pc = "done" /\ Len(reqs[s].tokenCalls) = 1

\* A cookie pair starts at i: only spaces lie between i and the preceding
\* ';' (or the start of the header).
StartsPair(h, i) ==
  LET before == {j \in 1 .. i - 1 : h[j] # " "}
  IN  before = {} \/ h[CHOOSE j \in before : \A k \in before : k <= j] = ";"

\* The request carries a cookie whose name is the session cookie's name.
HasSessionCookie(headers) ==
  /\ "Cookie" \in DOMAIN headers
  /\ LET h == headers["Cookie"]
     IN  \E i \in 1 .. Len(h) - 1 :
           h[i] = CookieName /\ h[i + 1] = "=" /\ StartsPair(h, i)

\* C3: an /api/ request that carries no session cookie is answered 401 with
\* an error field, and calls neither the store, the token endpoint nor the
\* upstream API.
C3_NoCookieNoCalls ==
  \A s \in Slots :
    LET r == reqs[s] IN
    (IsApi(r) /\ ~HasSessionCookie(r.req.headers))
      => /\ r.storeGets = 0 /\ r.storePuts = << >>
         /\ r.tokenCalls = << >> /\ r.upstream = << >>
         /\ r.pc = "done" /\ r.resp.status = 401 /\ r.resp.body \in ErrorBodies

\* C4: when the store has no record for the session identifier of the
\* cookie (never written, or expired), the request ends there, without a
\* store write, a token-endpoint call or an upstream call, and, the read of
\* the store having returned, with 401 Session expired.
C4_UnknownSessionIs401 ==
  [][\A s \in Slots :
       (reqs[s].pc = "get" /\ ~kvHas(store, reqs[s].sessionId, now)
          /\ reqs'[s] # reqs[s])
         => /\ reqs'[s].pc = "done"
            /\ ~StoreRejected(reqs'[s])
                 => reqs'[s].resp = jsonResponse(ErrSessionExpired, 401)
            /\ reqs'[s].storePuts = << >> /\ reqs'[s].tokenCalls = << >>
            /\ reqs'[s].upstream = << >>
            /\ store' = store]_vars

\* a session that was created and whose record the store has since dropped
C4_Witness ==
  \E s \in Slots :
    /\ reqs[s].pc = "done" /\ reqs[s].resp.body = ErrSessionExpired
    /\ sessions >= 1 /\ reqs[s].sessionId = uuid(1)

\* An /api/ request resolved right after the latest code exchange: same
\* session, and line 169 evaluated at the Date.now() of line 126.
RightAfterExchange(r) ==
  /\ Resolved(r) /\ r.pc # "refresh"
  /\ r.sessionId = issued.sessionId /\ r.decidedAt = issued.at

\* C5 as stated: for every lifetime, the record used right after the
\* exchange has the access token of the token-exchange response.
C5_RoundTripAnyLifetime ==
  \A s \in Slots :
    RightAfterExchange(reqs[s])
      => reqs[s].tokens.access_token = issued.access_token

\* C5 (amended): for every lifetime above 60 seconds, the record used right
\* after the exchange, and every upstream call made with it, has the access
\* token of the token-exchange response.
C5_RoundTrip ==
  \A s \in Slots :
    LET r == reqs[s] IN
    (RightAfterExchange(r) /\ issued.expires_in > 60)
      => /\ r.tokens.access_token = issued.access_token
         /\ r.tokenCalls = << >>
         /\ \A i \in 1 .. Len(r.upstream) :
              r.upstream[i].headers["Authorization"] = Bearer(issued.access_token)

C5_Witness ==
  \E s \in Slots :
    /\ RightAfterExchange(reqs[s]) /\ issued.expires_in > 60
    /\ reqs[s].pc = "done" /\ reqs[s].resp.status = 200

\* the request has written its refreshed record (line 172 completed)
Wrote(r) == Resolved(r) /\ r.refreshed /\ r.storePuts # << >>

\* C6: after a successful refresh the record stored has the refresh token
\* of the response when the response has one, and otherwise the refresh
\* token of the record that was read.
C6_RefreshTokenPreserved ==
  \A s \in Slots :
    LET r == reqs[s]
        kept == IF r.data.refresh_token = Undefined
                THEN r.tokenData.refresh_token
                ELSE r.data.refresh_token
    IN  Wrote(r)
          => /\ r.storePuts[1].key = r.sessionId
             /\ JSONparse(r.storePuts[1].value).refresh_token = kept
             /\ r.sessionId \in DOMAIN store
                  => JSONparse(store[r.sessionId].value).refresh_token = kept

\* the response left refresh_token out and the record read had one
C6_Witness ==
  \E s \in Slots :
    /\ Wrote(reqs[s])
    /\ reqs[s].data.refresh_token = Undefined
    /\ reqs[s].tokenData.refresh_token # Undefined
    /\ reqs[s].sessionId \in DOMAIN store

\* C7: no record in the store is without a refresh token.
C7_RefreshTokenAlwaysStored ==
  \A key \in DOMAIN store :
    /\ "refresh_token" \in DOMAIN store[key].value
    /\ JSONparse(store[key].value).refresh_token # Undefined

\* C8 as stated: for every lifetime, the expires_at written by a refresh is
\* greater than the expires_at that was read.
C8_ExpiryGrowsAnyLifetime ==
  \A s \in Slots :
    Wrote(reqs[s])
      => JSONparse(reqs[s].storePuts[1].value).expires_at
           > reqs[s].tokenData.expires_at

\* C8 (amended): for every lifetime above 60 seconds, the expires_at written
\* by a refresh is greater than the expires_at that was read.
C8_ExpiryGrows ==
  \A s \in Slots :
    (Wrote(reqs[s]) /\ reqs[s].data.expires_in > 60)
      => JSONparse(reqs[s].storePuts[1].value).expires_at
           > reqs[s].tokenData.expires_at

\* a refresh at the very instant the margin is reached
C8_Witness ==
  \E s \in Slots :
    /\ Wrote(reqs[s]) /\ reqs[s].data.expires_in > 60
    /\ reqs[s].decidedAt = reqs[s].tokenData.expires_at - 60000

C10_OnlyBearerAndJson ==
  \A s \in Slots :
    LET r == reqs[s] IN
    (Proxied(r) /\ r.upstream # << >>)
      => /\ Len(r.upstream) = 1
         /\ DOMAIN r.upstream[1].headers = {"Authorization", "Content-Type"}
         /\ r.upstream[1].headers["Authorization"] = <<"Bearer", r.tokens.access_token>>
         /\ r.upstream[1].headers["Content-Type"] = <<"application/json">>

C10_Witness ==
  \E s \in Slots :
    /\ Proxied(reqs[s]) /\ reqs[s].upstream # << >>
    /\ "Cookie" \in DOMAIN reqs[s].req.headers

\* C11 as stated: the upstream request of a proxied request has the method,
\* the query string and the body of the inbound request, whatever the method.
C11_SameMethodQueryBodyAnyMethod ==
  \A s \in Slots :
    LET r == reqs[s] IN
    (Proxied(r) /\ r.upstream # << >>)
      => /\ r.upstream[1].method = r.req.method
         /\ r.upstream[1].search = r.req.search
         /\ r.upstream[1].body = r.req.body

\* C11 (amended): the upstream request of a proxied request has the method
\* and the query string of the inbound request, and its path without the
\* leading /api; it has the body of the inbound request when the method is
\* POST, PUT or DELETE, and no body for any other method.
C11_SameMethodQueryBody ==
  \A s \in Slots :
    LET r == reqs[s] IN
    (Proxied(r) /\ r.upstream # << >>)
      => /\ r.upstream[1].method = r.req.method
         /\ r.upstream[1].search = r.req.search
         /\ <<"api">> \o r.upstream[1].path = r.req.path
         /\ r.req.method \in {"POST", "PUT", "DELETE"}
              => r.upstream[1].body = r.req.body
         /\ r.req.method \notin {"POST", "PUT", "DELETE"}
              => r.upstream[1].body = ""

\* a DELETE with a body has been forwarded and answered
C11_Witness ==
  \E s \in Slots :
    /\ Proxied(reqs[s]) /\ reqs[s].pc = "done" /\ reqs[s].resp.status = 200
    /\ reqs[s].req.method = "DELETE" /\ reqs[s].upstream[1].body = "[\"id1\"]"

\* C12: a step at which an awaited call of a handler throws (the fetch of
\* the proxy, its reading of the body of the request, the token exchange
\* of the callback, a get or put of the store) ends the request with a
\* response of status 500 and JSON content type; no rejection is handed to
\* the runtime.
C12_ExceptionsBecome500 ==
  [][\A s \in Slots :
       (UpstreamFailed(s) \/ BodyFailed(s) \/ ExchangeFailed(s)
          \/ StoreGetFailed(s) \/ StorePutFailed(s) \/ CallbackPutFailed(s))
         => /\ reqs'[s].pc = "done"
            /\ reqs'[s].resp # Rejected
            /\ reqs'[s].resp.status = 500
            /\ reqs'[s].resp.ctype = JsonType]_vars

\* C13: the body of the response that follows a caught exception is the
\* same whatever the message of the exception.
C13_ErrorBodyGeneric ==
  \A s \in Slots :
    LET r == reqs[s] IN
    (r.pc = "done" /\ r.thrown \in ErrorMessages)
      => \A message \in ErrorMessages :
           r.resp.body = caughtResponse(r.req.path, message).body

\* the request asks for /api/token and its resolve (and refresh, when one
\* was due) succeeded
TokenRequestResolved(r) ==
  /\ Resolved(r) /\ r.req.path = <<"api", "token">> /\ r.req.method = "GET"
  /\ r.pc \notin {"refresh", "put"}
  /\ WasDue(r) => r.refreshed /\ ~StoreRejected(r)

\* C14: a GET /api/token with a valid session makes no upstream
\* call and is answered with {access_token} alone, the resolved token.
C14_TokenEndpointLocal ==
  \A s \in Slots :
    LET r == reqs[s] IN
    TokenRequestResolved(r)
      => /\ r.upstream = << >>
         /\ r.pc = "done"
         /\ r.resp = jsonResponse(tokenBody(r.tokens.access_token), 200)

\* the request in slot 1 arrived after the logout of its session was handled
AfterLogout(s) ==
  /\ s = 1 /\ LoggedOut /\ IsApi(reqs[s])
  /\ reqs[s].sessionId = getSessionFromCookie(reqs[2].req.headers)

\* C15 as stated: an /api/ request that presents the session identifier
\* after the logout of that session ends with 401 Session expired and calls
\* neither the token endpoint nor the upstream API.
C15_LogoutDeletesRecord ==
  \A s \in Slots :
    LET r == reqs[s] IN
    (AfterLogout(s) /\ r.pc # "get")
      => /\ r.pc = "done" /\ r.resp = jsonResponse(ErrSessionExpired, 401)
         /\ r.tokenCalls = << >> /\ r.upstream = << >>

\* C15 (amended): the logout leaves the store as it is; an /api/ request
\* that presents the session identifier after the logout is resolved while
\* the store has the unexpired record, and ends with 401 Session expired,
\* without a token-endpoint or upstream call, once the record has expired.
C15_LogoutKeepsRecord ==
  [][\A s \in Slots :
       /\ (reqs[s].pc = "idle" /\ reqs'[s].pc = "done"
             /\ reqs'[s].req.path = <<"logout">>)
            => /\ store' = store
               /\ reqs'[s].resp = redirect("/", clearedCookie)
       /\ (AfterLogout(s) /\ reqs[s].pc = "get" /\ reqs'[s] # reqs[s]
             /\ ~StoreRejected(reqs'[s]))
            => IF kvHas(store, reqs[s].sessionId, now)
               THEN /\ Resolved(reqs'[s])
                    /\ reqs'[s].tokenData = JSONparse(store[reqs[s].sessionId].value)
                    /\ reqs'[s].pc \in {"refresh", "upstream"}
               ELSE /\ reqs'[s].pc = "done"
                    /\ reqs'[s].resp = jsonResponse(ErrSessionExpired, 401)
                    /\ reqs'[s].tokenCalls = << >>
                    /\ reqs'[s].upstream = << >>]_vars

\* after the logout, the session identifier still reaches the upstream API
C15_Witness ==
  \E s \in Slots :
    /\ AfterLogout(s) /\ reqs[s].pc = "done" /\ reqs[s].resp.status = 200
    /\ Len(reqs[s].upstream) = 1

\* the request read the record of the session of the latest code exchange
OfIssuedSession(r) == Resolved(r) /\ r.sessionId = issued.sessionId

\* C16 as stated: no record is read more than 24 hours after the code
\* exchange that created its session.
C16_AbsoluteCeiling ==
  \A s \in Slots :
    OfIssuedSession(reqs[s])
      => reqs[s].decidedAt <= issued.at + SessionTtl * 1000

\* C16 (amended): every write of a record (code exchange or refresh) sets
\* its expiration 24 hours after that write, and no record is read at or
\* after its expiration.
C16_CeilingFromLastWrite ==
  [][/\ \A key \in DOMAIN store' :
          (key \notin DOMAIN store \/ store'[key] # store[key])
            => store'[key].expiration = now + SessionTtl * 1000
     /\ \A s \in Slots :
          (reqs[s].pc = "get" /\ Resolved(reqs'[s]))
            => /\ reqs[s].sessionId \in DOMAIN store
               /\ now < store[reqs[s].sessionId].expiration]_vars

\* a record refreshed in between is read more than 24 hours after the
\* code exchange
C16_Witness ==
  \E s \in Slots :
    /\ OfIssuedSession(reqs[s])
    /\ reqs[s].decidedAt > issued.at + SessionTtl * 1000
    /\ reqs[s].tokenData.access_token # issued.access_token

\* C17: in every state, with or without a session cookie and with or
\* without a record in the store, the step that handles /logout answers 302
\* to / with the bosworth_session cookie emptied and Max-Age=0, and changes
\* nothing: the store, the sessions and the clock are as before, so that a
\* second logout meets the same state and gives the same response.
C17_LogoutIdempotent ==
  [][\A s \in Slots :
       (reqs[s].pc = "idle" /\ reqs'[s].pc # "idle"
          /\ reqs'[s].req.path = <<"logout">>)
         => /\ reqs'[s].pc = "done"
            /\ reqs'[s].resp.status = 302
            /\ reqs'[s].resp.location = "/"
            /\ reqs'[s].resp.setCookie[1] = CookieName
            /\ reqs'[s].resp.setCookie[3] = ";"
            /\ reqs'[s].resp.setCookie[Len(reqs'[s].resp.setCookie)] = "Max-Age=0"
            /\ reqs'[s].storeGets = 0 /\ reqs'[s].storePuts = << >>
            /\ <<store, sessions, minted, now>>' = <<store, sessions, minted, now>>]_vars

\* a logout handled while the store has the record its cookie names
C17_Witness ==
  \E s \in Slots :
    /\ reqs[s].pc = "done" /\ reqs[s].req.path = <<"logout">>
    /\ getSessionFromCookie(reqs[s].req.headers) \in DOMAIN store
    /\ reqs[s].resp.status = 302

\* the access token of the record the store has for a key
storedToken(kv, key) == JSONparse(kv[key].value).access_token

\* C18: when requests of one session overlap and find the record within
\* 60000 ms of its expiry, each of them that goes on to an upstream call
\* has refreshed and calls with the access token of its own refresh
\* response, not the one it read; each write puts the writer's refreshed
\* record in the store, replacing what an earlier writer put (the last
\* writer wins), a write that rejects leaving the store as it was; and
\* once the store has another token than the one read at the start, it
\* never has that one again.
C18_RaceTolerated ==
  [][/\ \A s \in Slots :
          LET r == reqs'[s] IN
          (Resolved(r) /\ WasDue(r) /\ r.upstream # << >>)
            => /\ r.refreshed
               /\ r.data.access_token # r.tokenData.access_token
               /\ r.upstream[1].headers["Authorization"] = Bearer(r.data.access_token)
     /\ \A s \in Slots :
          (reqs[s].pc = "put" /\ reqs'[s].pc # "put")
            => IF StoreRejected(reqs'[s]) THEN store' = store
               ELSE /\ store'[reqs[s].sessionId].value = JSONstringify(reqs[s].tokens)
                    /\ storedToken(store', reqs[s].sessionId)
                         = reqs[s].data.access_token
     /\ \A key \in DOMAIN store \cap DOMAIN store' :
          storedToken(store, key) # issued.access_token
            => storedToken(store', key) # issued.access_token]_vars

\* two requests read the same record, both refreshed and both wrote; the
\* store has the token of one of them
C18_Witness ==
  /\ \A s \in {1, 2} :
       /\ Wrote(reqs[s]) /\ WasDue(reqs[s]) /\ reqs[s].pc = "done"
       /\ reqs[s].tokenData.access_token = issued.access_token
  /\ reqs[1].data.access_token # reqs[2].data.access_token
  /\ uuid(1) \in DOMAIN store
  /\ storedToken(store, uuid(1)) = reqs[1].data.access_token

C20_WriteBeforeCalls ==
  [][\A s \in Slots :
       /\ (reqs'[s].refreshed /\ reqs'[s].upstream # << >>)
            => /\ Len(reqs'[s].storePuts) = 1
               /\ reqs'[s].storePuts[1].key = reqs'[s].sessionId
               /\ reqs'[s].storePuts[1].ttl = 86400
               /\ reqs'[s].storePuts[1].value = JSONstringify(reqs'[s].tokens)
       /\ (reqs[s].pc = "put" /\ StoreRejected(reqs'[s]))
            => store' = store /\ reqs'[s].upstream = << >>
       /\ (reqs[s].pc = "put" /\ reqs[s].refreshed /\ reqs'[s].pc # "put"
             /\ ~StoreRejected(reqs'[s]))
            => /\ reqs[s].upstream = << >>
               /\ DOMAIN store' = DOMAIN store \cup {reqs[s].sessionId}
               /\ store'[reqs[s].sessionId]
                    = [value |-> JSONstringify(reqs[s].tokens),
                       expiration |-> now + 86400 * 1000]
               /\ \A key \in DOMAIN store \ {reqs[s].sessionId} :
                    store'[key] = store[key]]_vars

\* a refreshed record written while the store has another session, and the
\* call that followed it
C20_Witness ==
  \E s \in Slots :
    /\ Wrote(reqs[s]) /\ reqs[s].upstream # << >>
    /\ reqs[s].sessionId = uuid(1) /\ uuid(2) \in DOMAIN store
    /\ reqs[s].req.path = <<"api", "me", "tracks">>

\* the query string has a parameter of that name
HasParam(search, name) == \E i \in 1 .. Len(search) : search[i][1] = name

\* the query string has a parameter of that name whose value is not empty
HasValue(search, name) ==
  \E i \in 1 .. Len(search) : search[i][1] = name /\ search[i][2] # ""

IsCallback(r) == r.pc # "idle" /\ r.req.path = <<"callback">>

\* the callback ended with an HTML page and did nothing else
EndedWithPage(r, html) ==
  /\ r.pc = "done"
  /\ r.resp.status = 200 /\ r.resp.ctype = "text/html; charset=utf-8"
  /\ r.resp.body = html
  /\ r.resp.setCookie = << >>
  /\ r.tokenCalls = << >> /\ r.storePuts = << >>

\* C21 as stated: a callback whose query has an error parameter ends with
\* the page "Authorization denied", also when a code is there; one with
\* neither ends with the page "No authorization code received"; neither
\* calls the token endpoint, writes to the store or sets a cookie.
C21_ErrorThenCodeAnyValue ==
  \A s \in Slots :
    LET r == reqs[s] IN
    IsCallback(r)
      => /\ HasParam(r.req.search, "error")
              => \E i \in 1 .. Len(r.req.search) :
                   /\ r.req.search[i][1] = "error"
                   /\ EndedWithPage(r, "Authorization denied: " \o r.req.search[i][2])
         /\ (~HasParam(r.req.search, "error") /\ ~HasParam(r.req.search, "code"))
              => EndedWithPage(r, "No authorization code received")

\* C21 (amended): the same, for an error parameter whose value is not
\* empty; an empty error parameter counts as none.
C21_ErrorThenCode ==
  \A s \in Slots :
    LET r == reqs[s] IN
    IsCallback(r)
      => /\ HasValue(r.req.search, "error")
              => \E i \in 1 .. Len(r.req.search) :
                   /\ r.req.search[i][1] = "error"
                   /\ EndedWithPage(r, "Authorization denied: " \o r.req.search[i][2])
         /\ (~HasValue(r.req.search, "error") /\ ~HasParam(r.req.search, "code"))
              => EndedWithPage(r, "No authorization code received")

\* a callback with both an error and a code
C21_Witness ==
  \E s \in Slots :
    /\ IsCallback(reqs[s]) /\ reqs[s].pc = "done"
    /\ HasValue(reqs[s].req.search, "error") /\ HasValue(reqs[s].req.search, "code")
    /\ reqs[s].resp.body = "Authorization denied: access_denied"

\* C22: a callback whose code exchange was answered with a non-success
\* status ends with the page "Failed to exchange authorization code",
\* whatever the body of that answer; it has drawn no session identifier,
\* written nothing to the store and set no cookie.
C22_RefusedExchange ==
  \A s \in Slots :
    LET r == reqs[s] IN
    (IsCallback(r) /\ r.tokenResp.status >= 300)
      => /\ r.pc = "done"
         /\ r.resp.status = 200 /\ r.resp.ctype = "text/html; charset=utf-8"
         /\ r.resp.body = "Failed to exchange authorization code"
         /\ r.resp.setCookie = << >>
         /\ r.sessionId = << >> /\ r.storePuts = << >>
         /\ Len(r.tokenCalls) = 1

C22_Witness ==
  \E s \in Slots :
    /\ IsCallback(reqs[s]) /\ reqs[s].pc = "done"
    /\ reqs[s].tokenResp = [status |-> 400, body |-> "{\"error\":\"invalid_grant\"}"]

\* C23: the step that ends a successful callback, its put completed, writes
\* one record, under
\* a key the store did not have, with a TTL of 86400 seconds, and changes
\* no other key; the response redirects with a bosworth_session cookie
\* whose value is that key and whose Max-Age is 86400, and no part of the
\* cookie is a token of the record.
C23_OneRecordNewSession ==
  [][\A s \in Slots :
       (reqs[s].pc = "created" /\ reqs'[s].pc = "done"
          /\ ~StoreRejected(reqs'[s]))
         => LET r == reqs'[s]
                key == r.storePuts[1].key
                cookie == r.resp.setCookie
                record == JSONparse(r.storePuts[1].value)
            IN  /\ Len(r.storePuts) = 1
                /\ r.storePuts[1].ttl = 86400
                /\ key # << >> /\ key \notin DOMAIN store
                /\ DOMAIN store' = DOMAIN store \cup {key}
                /\ store'[key] = [value |-> r.storePuts[1].value,
                                  expiration |-> now + 86400 * 1000]
                /\ \A other \in DOMAIN store : store'[other] = store[other]
                /\ record.access_token = r.data.access_token
                /\ r.resp.status = 302
                /\ SubSeq(cookie, 1, 3 + Len(key))
                     = <<"bosworth_session", "=">> \o key \o <<";">>
                /\ cookie[Len(cookie)] = "Max-Age=86400"
                /\ \A i \in 1 .. Len(cookie) :
                     cookie[i] \notin {record.access_token, record.refresh_token}]_vars

\* a callback that carried the cookie of a stored session has ended with a
\* second session
C23_Witness ==
  \E s \in Slots :
    /\ IsCallback(reqs[s]) /\ reqs[s].pc = "done" /\ reqs[s].resp.status = 302
    /\ getSessionFromCookie(reqs[s].req.headers) = <<"u1">>
    /\ reqs[s].sessionId = <<"u2">>
    /\ {<<"u1">>, <<"u2">>} \subseteq DOMAIN store

\* C24: a request calls the token endpoint at most once, and a proxied
\* request calls the upstream API at most once; after a refused or failed
\* token call, an upstream error status or a failed upstream call, the
\* request has ended.
C24_NoRetry ==
  \A s \in Slots :
    LET r == reqs[s] IN
    /\ Len(r.tokenCalls) <= 1
    /\ Proxied(r) => Len(r.upstream) <= 1
    /\ (r.tokenResp.status >= 300 \/ r.upstreamResp.status >= 400
          \/ r.resp = Rejected)
         => r.pc = "done"

\* a request that refreshed once and was answered 429 once
C24_Witness ==
  \E s \in Slots :
    /\ Proxied(reqs[s]) /\ reqs[s].pc = "done"
    /\ Len(reqs[s].tokenCalls) = 1 /\ reqs[s].refreshed
    /\ Len(reqs[s].upstream) = 1 /\ reqs[s].upstreamResp.status = 429

\* C25: no step removes a key from the store, and a step changes or adds
\* only the key that is the session identifier of the request taking the
\* step; a request reads the record stored under the identifier of its own
\* cookie, and its upstream calls carry the access token of that record or
\* of its own refresh of it.
C25_SessionIsolation ==
  [][/\ DOMAIN store \subseteq DOMAIN store'
     /\ \A key \in DOMAIN store' :
          (key \notin DOMAIN store \/ store'[key] # store[key])
            => \E s \in Slots :
                 /\ reqs[s].pc \in {"put", "created"} /\ reqs'[s].pc # reqs[s].pc
                 /\ reqs[s].sessionId = key
     /\ \A s \in Slots :
          (reqs[s].pc = "get" /\ Resolved(reqs'[s]))
            => /\ reqs[s].sessionId \in DOMAIN store
               /\ Len(reqs[s].sessionId) = 1
               /\ \E i \in 1 .. Len(reqs[s].req.headers["Cookie"]) :
                    reqs[s].req.headers["Cookie"][i] = reqs[s].sessionId[1]
               /\ reqs'[s].tokenData = JSONparse(store[reqs[s].sessionId].value)
     /\ \A s \in Slots :
          LET r == reqs'[s] IN
          Resolved(r)
            => \A i \in 1 .. Len(r.upstream) :
                 r.upstream[i].headers["Authorization"]
                   \in {<<"Bearer", r.tokenData.access_token>>,
                        <<"Bearer", r.data.access_token>>}]_vars

\* a request of the first session answered with its own token while the
\* store has the second session, with another token
C25_Witness ==
  \E s \in Slots :
    /\ Resolved(reqs[s]) /\ reqs[s].pc = "done" /\ reqs[s].resp.status = 200
    /\ reqs[s].sessionId = <<"u1">> /\ ~reqs[s].refreshed
    /\ <<"u2">> \in DOMAIN store
    /\ storedToken(store, <<"u2">>) # reqs[s].tokenData.access_token
    /\ reqs[s].upstream[1].headers["Authorization"]
         = <<"Bearer", storedToken(store, <<"u1">>)>>

\* the request made no call at all
NoCalls(r) ==
  /\ r.storeGets = 0 /\ r.storePuts = << >>
  /\ r.tokenCalls = << >> /\ r.upstream = << >>

\* what the request shows of the handler that took it
AsStaticPage(r) ==
  /\ r.pc = "done" /\ r.resp.status = 200
  /\ r.resp.ctype = "text/html; charset=utf-8" /\ NoCalls(r)
AsAuthBegin(r) ==
  /\ r.pc = "done" /\ r.resp.status = 302
  /\ r.resp.location = authorizeUrl(ClientId, RedirectUri) /\ NoCalls(r)
AsLogout(r) ==
  /\ r.pc = "done" /\ r.resp.status = 302 /\ r.resp.location = "/" /\ NoCalls(r)
AsCallback(r) ==
  \/ r.pc = "done" /\ r.resp.ctype = "text/html; charset=utf-8" /\ r.tokenCalls = << >>
  \/ Len(r.tokenCalls) = 1 /\ r.tokenCalls[1].grant = "authorization_code"
AsApi(r) ==
  \/ r.pc = "done" /\ r.resp.status = 401 /\ NoCalls(r)
  \/ r.storeGets = 1
AsNotFound(r) ==
  /\ r.pc = "done" /\ r.resp.status = 404 /\ r.resp.body = "Not Found" /\ NoCalls(r)

\* the six classes without a token-fetch class
Classified(r) ==
  LET p == r.req.path IN
  /\ p \in {<< >>, <<"analytics">>, <<"party">>} => AsStaticPage(r)
  /\ p = <<"auth">> => AsAuthBegin(r)
  /\ p = <<"callback">> => AsCallback(r)
  /\ p = <<"logout">> => AsLogout(r)
  /\ (Len(p) >= 2 /\ p[1] = "api") => AsApi(r)
  /\ (p \notin {<< >>, <<"analytics">>, <<"party">>, <<"auth">>, <<"callback">>,
                <<"logout">>} /\ ~(Len(p) >= 2 /\ p[1] = "api"))
       => AsNotFound(r)

\* C26: every request falls in the class of its path, and
\* /api/token is a class of its own, which is not proxied.
C26_SevenClasses ==
  \A s \in Slots :
    LET r == reqs[s] IN
    r.pc # "idle"
      => /\ Classified(r)
         /\ r.req.path = <<"api", "token">> => r.upstream = << >>

\* C27: a step that counts the tracks of a move as sorted (songsSorted
\* grows as the move ends) leaves none of these tracks among the user's
\* Liked Songs.
C27_SortedMeansRemoved ==
  [][\A mv \in BagToSet(page.moves) :
       (mv.pc = "removing" /\ page'.moves = resumed(page, mv)
          /\ page'.songsSorted = page.songsSorted + Len(mv.tracks))
         => Range(mv.tracks) \cap page'.liked = {}]_vars


RefreshHasFailed(r) ==
  r.pc = "done" /\ r.tokenCalls # << >> /\ ~r.refreshed
    /\ r.resp = jsonResponse(ErrRefreshFailed, 401)

\* C28: the step in which a required refresh fails leaves the token store
\* as it was and the request has issued no put; and a request that reads
\* the record of that session after the failure calls the token endpoint
\* with the refresh grant and the stored refresh token again.
C28_FailedRefreshKeepsRecord ==
  [][\A s \in Slots :
       /\ (reqs[s].pc = "refresh" /\ RefreshHasFailed(reqs'[s]))
            => store' = store /\ reqs'[s].storePuts = << >>
       /\ \A t \in Slots :
            (RefreshHasFailed(reqs[s]) /\ reqs[t].pc = "get"
               /\ reqs'[t].pc # "get" /\ ~StoreRejected(reqs'[t])
               /\ reqs[t].sessionId = reqs[s].sessionId
               /\ kvHas(store, reqs[s].sessionId, now)
               /\ JSONparse(store[reqs[s].sessionId].value) = reqs[s].tokenData)
              => /\ reqs'[t].pc = "refresh"
                 /\ reqs'[t].tokenCalls
                      = <<[grant |-> "refresh_token",
                           credential |-> reqs[s].tokenData.refresh_token]>>]_vars

\* a refresh has failed, the record it read is still the one stored, and
\* another request of the session has read it and is calling the token
\* endpoint
C28_Witness ==
  \E s, t \in Slots :
    /\ RefreshHasFailed(reqs[s])
    /\ kvHas(store, reqs[s].sessionId, now)
    /\ JSONparse(store[reqs[s].sessionId].value) = reqs[s].tokenData
    /\ reqs[t].pc = "refresh"
    /\ reqs[t].sessionId = reqs[s].sessionId
    /\ reqs[t].tokenData = reqs[s].tokenData


IsAux(r) == r.pc # "idle" /\ r.req.path \in AuxPaths

\* the request has reached the handler of its internal endpoint
AuxReached(r) ==
  \/ r.pc \in {"body", "aux", "ai", "exec", "insert", "select"}
  \/ r.upstream # << >> \/ r.thrown \notin {"", StoreError}

\* C29: a request to /api/ai-insights, /api/session/save or
\* /api/session/history reaches its handler only with a record read from
\* the store under its cookie's session identifier and, when that record was
\* due, after a refresh that succeeded and was stored, whose access token
\* its calls then carry; without a session identifier, without a record or
\* with a failed refresh it ends with the 401 of that case and no upstream
\* call; and none of its upstream calls goes to the path of the request.
C29_AuxiliaryGate ==
  \A s \in Slots :
    LET r == reqs[s] IN
    IsAux(r) =>
      /\ r.sessionId = getSessionFromCookie(r.req.headers)
      /\ AuxReached(r) =>
           /\ Resolved(r) /\ r.storeGets = 1
           /\ WasDue(r) <=> r.refreshed
           /\ r.refreshed => Len(r.storePuts) = 1 /\ Len(r.tokenCalls) = 1
           /\ \A i \in 1 .. Len(r.upstream) :
                r.upstream[i].headers["Authorization"]
                  = Bearer(r.tokens.access_token)
      /\ (r.pc = "done" /\ r.sessionId = NoSession) =>
           r.resp = jsonResponse(ErrNotAuthenticated, 401) /\ NoCalls(r)
      /\ (r.pc = "done" /\ r.sessionId # NoSession /\ ~Resolved(r)) =>
           /\ ~StoreRejected(r) => r.resp = jsonResponse(ErrSessionExpired, 401)
           /\ r.tokenCalls = << >> /\ ~AuxReached(r)
      /\ StoreRejected(r) => ~AuxReached(r)
      /\ (r.pc = "done" /\ Resolved(r) /\ WasDue(r) /\ ~r.refreshed) =>
           /\ r.resp = jsonResponse(ErrRefreshFailed, 401)
           /\ r.storePuts = << >> /\ ~AuxReached(r)
      /\ r.pc # "upstream"
      /\ \A i \in 1 .. Len(r.upstream) :
           r.upstream[i].path # spotifyPath(r.req.path)

\* /api/ai-insights has reached its handler after a refresh, with its two
\* calls to the upstream API issued
C29_Witness ==
  \E s \in Slots :
    /\ reqs[s].pc = "aux" /\ reqs[s].req.path = <<"api", "ai-insights">>
    /\ reqs[s].refreshed /\ Len(reqs[s].upstream) = 2


NonApiRoutes == {<< >>, <<"analytics">>, <<"party">>, <<"auth">>, <<"logout">>}

\* C30: the step that takes a request to /, /analytics, /party, /auth or
\* /logout answers it at once, leaves the token store as it was, and the
\* request has made no call to the store, the token endpoint or the upstream
\* API, whatever its Cookie header.
C30_NonApiRoutesFrame ==
  [][\A s \in Slots :
       (reqs[s].pc = "idle" /\ reqs'[s].pc # "idle"
          /\ reqs'[s].req.path \in NonApiRoutes)
         => store' = store /\ reqs'[s].pc = "done" /\ NoCalls(reqs'[s])]_vars

\* /auth has been answered for a request that presented the cookie of a
\* session whose record is in the store
C30_Witness ==
  \E s \in Slots :
    /\ reqs[s].pc = "done" /\ reqs[s].req.path = <<"auth">>
    /\ "Cookie" \in DOMAIN reqs[s].req.headers
    /\ getSessionFromCookie(reqs[s].req.headers) = uuid(1)
    /\ kvHas(store, uuid(1), now)


\* C31: no step of a callback removes a key of the token store or changes
\* the value or the expiration stored under it, whatever cookie the request
\* carried; the step that ends a successful callback adds exactly one key,
\* which the store did not have, and what the store returns for every other
\* key is what it returned before.
C31_CallbackKeepsRecords ==
  [][\A s \in Slots :
       (IsCallback(reqs'[s]) /\ reqs'[s] # reqs[s])
         => /\ \A key \in DOMAIN store :
                 /\ key \in DOMAIN store' /\ store'[key] = store[key]
                 /\ kvHas(store', key, now') <=> kvHas(store, key, now)
            /\ IF reqs[s].pc = "created" /\ reqs'[s].pc = "done"
                    /\ ~StoreRejected(reqs'[s])
               THEN /\ reqs[s].sessionId \notin DOMAIN store
                    /\ DOMAIN store' = DOMAIN store \cup {reqs[s].sessionId}
                    /\ Cardinality(DOMAIN store')
                         = Cardinality(DOMAIN store) + 1
               ELSE store' = store]_vars

\* a callback that carried the cookie of the first session has ended with
\* a second record, and the first session's record is still returned by the
\* store, with the earlier expiration it had
C31_Witness ==
  \E s \in Slots :
    /\ IsCallback(reqs[s]) /\ reqs[s].pc = "done" /\ reqs[s].resp.status = 302
    /\ getSessionFromCookie(reqs[s].req.headers) = uuid(1)
    /\ kvHas(store, uuid(1), now) /\ kvHas(store, reqs[s].sessionId, now)
    /\ store[uuid(1)].expiration < store[reqs[s].sessionId].expiration


\* the responses the program builds: page, redirect, 401 JSON, relayed
\* upstream response, auxiliary JSON, 404 and 500 JSON
IsPage(resp) == resp.status = 200 /\ resp.ctype = HtmlType
IsRedirect(resp) == resp.status = 302 /\ resp.location # ""
Is401Json(resp) ==
  resp.status = 401 /\ resp.ctype = JsonType /\ resp.body \in ErrorBodies
Is404(resp) == resp.status = 404 /\ resp.body = "Not Found"
Is500Json(resp) == resp.status = 500 /\ resp.ctype = JsonType
IsRelayed(r) ==
  /\ Proxied(r) /\ r.upstreamResp.status # 0
  /\ r.resp = jsonResponse(r.upstreamResp.body, r.upstreamResp.status)
IsAuxJson(r) == IsAux(r) /\ r.resp.status = 200 /\ r.resp.ctype = JsonType

Answered(r) ==
  /\ r.pc = "done"
  /\ \/ IsPage(r.resp) \/ IsRedirect(r.resp) \/ Is401Json(r.resp)
     \/ IsRelayed(r) \/ IsAuxJson(r) \/ Is404(r.resp) \/ Is500Json(r.resp)

\* C32: when every call completes, a request that has arrived is
\* eventually ended with a response that is a page, a redirect, a 401 JSON,
\* the relayed upstream response, an auxiliary JSON, a 404 or a 500 JSON.
C32_EveryRequestAnswered ==
  \A s \in Slots : (reqs[s].pc # "idle") ~> Answered(reqs[s])


\* the add of mv failed in this step: the move is over and nothing else of
\* the page has changed
AddHasFailed(mv) ==
  /\ awaiting(page, mv) /\ mv.pc = "adding"
  /\ page'.stage = page.stage
  /\ BagCardinality(page'.moves) < BagCardinality(page.moves)
  /\ CopiesIn(mv, page'.moves) < CopiesIn(mv, page.moves)

\* C33: a move awaits its DELETE only once the service has put its tracks
\* in the playlist, in the step in which its POST was answered; a move
\* enters the page awaiting its POST; and the step in which the POST of a
\* move fails ends the move with no DELETE issued and with songs,
\* songsSorted, playlistsUsed, genresSorted, selectedSongs and
\* currentSongIndex (and the Liked Songs) as they were.
C33_AddBeforeRemove ==
  [][/\ \A mv \in BagToSet(page'.moves) :
          /\ mv.pc = "removing" => Range(mv.tracks) \subseteq page'.inPlaylist
          /\ CopiesIn(mv, page'.moves) > CopiesIn(mv, page.moves)
               => \/ /\ mv.pc = "adding" /\ mv.served = "no"
                     /\ page'.moves = page.moves (+) SetToBag({mv})
                  \/ /\ mv.served # "no"
                     /\ awaiting(page, [mv EXCEPT !.served = "no"])
                     /\ page'.moves = resumed(page, [mv EXCEPT !.served = "no"])
                                        (+) SetToBag({mv})
                  \/ /\ mv.pc = "removing"
                     /\ mv.served = "no"
                     /\ awaiting(page, [mv EXCEPT !.pc = "adding", !.served = "ok"])
                     /\ page'.moves = resumed(page, [mv EXCEPT !.pc = "adding",
                                                              !.served = "ok"])
                                        (+) SetToBag({mv})
     /\ \A mv \in BagToSet(page.moves) :
          AddHasFailed(mv)
            => page' = [page EXCEPT !.moves = resumed(page, mv)]]_vars

\* a move of two rows, ticked from the last to the first, awaits its
\* DELETE, which the service has not handled, its POST answered, with
\* nothing counted or removed yet
C33_Witness ==
  \E a \in BagToSet(page.moves) :
    /\ a.pc = "removing" /\ a.served = "no" /\ a.tracks = <<"t2", "t1">>
    /\ Range(a.tracks) \subseteq page.inPlaylist \cap page.liked
    /\ page.songsSorted = 0 /\ Len(page.songs) > 2
    /\ page.selectedSongs = <<1, 0>> /\ page.currentSongIndex >= 0


RECURSIVE SumOver(_, _)
SumOver(f, names) ==
  IF names = {} THEN 0
  ELSE LET name == CHOOSE x \in names : TRUE
       IN  f[name] + SumOver(f, names \ {name})

\* the sum of all counts in playlistsUsed
SumOfCounts(used) == SumOver(used, DOMAIN used)

\* C34: songsSorted is the sum of the counts of playlistsUsed, and it
\* grows by the number of tracks of a move exactly in the step that ends a
\* move whose POST was answered ok (so that, with no move awaiting an
\* answer, it is the number of tracks of the POSTs that succeeded).
C34_StatisticsMatchAdds ==
  [][/\ page'.songsSorted = SumOfCounts(page'.playlistsUsed)
     /\ \A mv \in BagToSet(page.moves) :
          (mv.pc = "removing" /\ page'.moves = resumed(page, mv))
            => page'.songsSorted = page.songsSorted + Len(mv.tracks)
     /\ page'.songsSorted # page.songsSorted
          => \E mv \in BagToSet(page.moves) :
               mv.pc = "removing" /\ page'.moves = resumed(page, mv)]_vars


\* C35: the step in which a move removes its rows takes from songs no
\* track but those the move sent to the playlist, and leaves none of these
\* in songs, whatever other move or reload began or ended while the move
\* was awaiting its answers.
C35_MoveRemovesItsTracks ==
  [][\A mv \in BagToSet(page.moves) :
       (mv.pc = "removing" /\ page'.moves = resumed(page, mv)
          /\ page'.songsSorted = page.songsSorted + Len(mv.tracks))
         => /\ Range(page.songs) \ Range(page'.songs) \subseteq Range(mv.tracks)
            /\ Range(mv.tracks) \cap Range(page'.songs) = {}]_vars


\* the index, after mv has removed its rows, of the song that followed row
\* current: the first row after it that mv leaves, or else the last row
\* left (-1 when none is)
followerIndex(songs, current, mv) ==
  IF \E j \in current + 1 .. Len(songs) - 1 : j \notin Range(mv.indices)
  THEN current - Cardinality({i \in Range(mv.indices) : i < current})
  ELSE Len(spliceAll(songs, mv.indices)) - 1

\* C36: the step in which a move, made alone, removes its rows leaves
\* currentSongIndex at the track that was playing, lowered by the number of
\* removed rows before it, when the move did not include that row; and at
\* the song that followed the playing one, or the last song left, or -1 for
\* an empty list, when it did.
C36_PlayingSongFollowed ==
  [][\A mv \in BagToSet(page.moves) :
       (mv.pc = "removing" /\ page'.moves = resumed(page, mv)
          /\ page'.songsSorted = page.songsSorted + Len(mv.tracks)
          /\ page.currentSongIndex >= 0)
         => LET current == page.currentSongIndex
                before == Cardinality({i \in Range(mv.indices) : i < current})
            IN  IF current \notin Range(mv.indices)
                THEN /\ page'.currentSongIndex = current - before
                     /\ page'.songs[page'.currentSongIndex + 1]
                          = page.songs[current + 1]
                ELSE page'.currentSongIndex
                       = followerIndex(page.songs, current, mv)]_vars


\* C37: currentSongIndex is -1 or an index of songs, and every member of
\* selectedSongs is an index of songs.
C37_IndicesValid ==
  /\ page.currentSongIndex = -1 \/ validIndex(page.songs, page.currentSongIndex)
  /\ \A i \in Range(page.selectedSongs) : validIndex(page.songs, i)

====
